---- MODULE Spec2Model ----
(***************************************************************************)
(* ROVE backend, GTFS data class (backend/data_class/gtfs.py).             *)
(*                                                                         *)
(* The state machine follows GTFS.__init__: after load_data/validate_data  *)
(* have produced the validated tables (the variable feed), the constructor *)
(* runs get_gtfs_records, the timepoint column block, add_branchpoints,    *)
(* generate_patterns and improve_pattern_with_shapes, one action each.     *)
(* A pandas table is a sequence of rows; a column added to the records     *)
(* table is a sequence aligned with records (<<>> while the column does    *)
(* not exist).  Identifiers (stop_id, route_id, trip_id, shape_id) are     *)
(* positive integers whose order is the sort order of the strings.         *)
(***************************************************************************)
EXTENDS Integers, Sequences, FiniteSets, TLC

VARIABLES
    feed,          \* validated_data (trips, stop_times, stops, shapes) and shape_gen
    pc,            \* position in GTFS.__init__
    records,       \* self.records (rows of the merged table)
    timepoint,     \* records['timepoint']
    branchpoint,   \* records['branchpoint']
    tp_bp,         \* records['tp_bp']
    pattern,       \* records['pattern']
    patterns_dict, \* self.patterns_dict
    shape_used,    \* per pattern: the shape whose polyline was matched, or NoShape
    match_index,   \* per pattern: first/last_stop_match_index of each segment
    err,           \* the exception that ended the constructor, "none" if none
    env,           \* what load_data reads: rove_params.date_list, the calendar
                   \* and the tables of the GTFS archive
    service_id_list, \* load_data's service_id_list
    ptg_feed,      \* the feed of ptg.load_feed, and whether it was called
    raw_data,      \* self.raw_data
    validated_data, \* self.validated_data
    margs,         \* arguments of Metric_Calculation(shapes, gtfs_records,
                   \* avl_records, params) and of the method called on it
    mc,            \* the attributes assigned on the Metric_Calculation object
    tpbp_dict,     \* the lookup generate_timepoints_output writes to timepoints.json
    main,          \* the switches at the head of backend_main.py
    bound,         \* the local names of __main__ that are bound
    files,         \* the output files written so far
    stages,        \* the stages of __main__ entered so far, in order
    time_period_full,     \* params.config['time_periods']['full'], once read
    all_10_min_intervals  \* the list of line 161

gtfsVars == <<feed, records, timepoint, branchpoint, tp_bp,
              pattern, patterns_dict, shape_used, match_index>>

loadVars == <<env, service_id_list, ptg_feed, raw_data, validated_data>>

metricVars == <<margs, mc>>

mainVars == <<main, bound, files, stages, time_period_full, all_10_min_intervals>>

vars == <<gtfsVars, pc, err, loadVars, metricVars, tpbp_dict, mainVars>>

-----------------------------------------------------------------------------
(* Bounds of the model *)

MaxTrips == 3
MaxTripsTp == 2
HashMod == 16
MaxFaulty == 1
MaxMetricTrips == 2
MaxMethodTrips == 1
MaxHour == 2

MaxScheduleTrips == 2

-----------------------------------------------------------------------------
(* Generic helpers *)

Range(s) == {s[i] : i \in DOMAIN s}

Max(S) == CHOOSE x \in S : \A y \in S : y <= x

Min(S) == CHOOSE x \in S : \A y \in S : x <= y

EmptyMap == [x \in {} |-> 0]

RECURSIVE Flatten(_)
Flatten(ss) == IF ss = <<>> THEN <<>> ELSE Head(ss) \o Flatten(Tail(ss))

\* a cell of an object column: a set, or NaN where pandas has no entry
NaN == [isset |-> FALSE, val |-> {}]

SetCell(S) == [isset |-> TRUE, val |-> S]

NoShape == 0

TIMEPOINT_COLS_CANDIDATE == {"timepoints", "timepoint", "checkpoint"}

-----------------------------------------------------------------------------
(* load_data and validate_data.  A table (DataFrame) is a record of its     *)
(* columns, the dtype of each column and its rows; a row is a function from *)
(* the columns to values, Null where the value is missing.                  *)

Null == -1

REQUIRED_DATA_SPEC ==
    [stops      |-> [stop_id |-> "string", stop_name |-> "string",
                     stop_lat |-> "float64", stop_lon |-> "float64"],
     routes     |-> [route_id |-> "string", route_type |-> "int64"],
     trips      |-> [route_id |-> "string", service_id |-> "string",
                     trip_id |-> "string", direction_id |-> "int64"],
     stop_times |-> [trip_id |-> "string", arrival_time |-> "int64",
                     departure_time |-> "int64", stop_id |-> "string",
                     stop_sequence |-> "int64"]]

OPTIONAL_DATA_SPEC ==
    [shapes |-> [shape_id |-> "string", shape_pt_lat |-> "float64",
                 shape_pt_lon |-> "float64", shape_pt_sequence |-> "int64"]]

\* the order in which a loop over the spec visits its tables
RequiredTables == <<"stops", "routes", "trips", "stop_times">>

OptionalTables == <<"shapes">>

DataSpecs ==
    [n \in Range(RequiredTables) \cup Range(OptionalTables) |->
        IF n \in DOMAIN REQUIRED_DATA_SPEC
        THEN REQUIRED_DATA_SPEC[n] ELSE OPTIONAL_DATA_SPEC[n]]

\* lines 139-140
AvailableDates(date_list, service_ids_by_date) ==
    date_list \ (date_list \ DOMAIN service_ids_by_date)

\* line 141: the distinct service_id sets of the available dates
ServiceIdList(date_list, service_ids_by_date) ==
    {service_ids_by_date[day] :
        day \in AvailableDates(date_list, service_ids_by_date)}

\* DataFrame.empty: no rows or no columns
IsEmpty(df) == df.rows = <<>> \/ df.columns = {}

\* lines 173-198.  getattr raises AttributeError for a table the feed does
\* not have; the KeyError of line 182 is caught by neither handler and leaves
\* the method.  The result is the dict built so far and the exception.
\* GetNonEmptyStoresAnyColumns is the method without the check of line 179.
RECURSIVE GetNonEmptyStoresAnyColumns(_, _, _, _, _)
GetNonEmptyStoresAnyColumns(feed_tables, table_col_spec, names, required, data) ==
    IF names = <<>> THEN [data |-> data, err |-> "none"]
    ELSE LET table_name == Head(names)
             skip == GetNonEmptyStoresAnyColumns(feed_tables, table_col_spec,
                                                 Tail(names), required, data)
         IN  IF table_name \notin DOMAIN feed_tables
             THEN IF required
                  THEN [data |-> data, err |-> "SystemExit: required table not found"]
                  ELSE skip
             ELSE IF IsEmpty(feed_tables[table_name])
             THEN IF required
                  THEN [data |-> data, err |-> "SystemExit: required table empty"]
                  ELSE skip
             ELSE GetNonEmptyStoresAnyColumns(feed_tables, table_col_spec,
                      Tail(names), required,
                      [n \in DOMAIN data \cup {table_name} |->
                          IF n = table_name THEN feed_tables[n] ELSE data[n]])

RECURSIVE GetNonEmptyGtfsTable(_, _, _, _, _)
GetNonEmptyGtfsTable(feed_tables, table_col_spec, names, required, data) ==
    IF names = <<>> THEN [data |-> data, err |-> "none"]
    ELSE LET table_name == Head(names)
             columns == table_col_spec[table_name]
             skip == GetNonEmptyGtfsTable(feed_tables, table_col_spec,
                                          Tail(names), required, data)
         IN  IF table_name \notin DOMAIN feed_tables
             THEN IF required
                  THEN [data |-> data, err |-> "SystemExit: required table not found"]
                  ELSE skip
             ELSE IF IsEmpty(feed_tables[table_name])
             THEN IF required
                  THEN [data |-> data, err |-> "SystemExit: required table empty"]
                  ELSE skip
             ELSE IF ~(DOMAIN columns \subseteq feed_tables[table_name].columns)
             THEN [data |-> data, err |-> "KeyError: missing required columns"]
             ELSE GetNonEmptyGtfsTable(feed_tables, table_col_spec,
                      Tail(names), required,
                      [n \in DOMAIN data \cup {table_name} |->
                          IF n = table_name THEN feed_tables[n] ELSE data[n]])

\* lines 154-159: the required tables, then the optional ones, merged
\* (mutation: the optional tables are read with required=True)
LoadTablesAllRequired(feed_tables) ==
    LET required_data == GetNonEmptyGtfsTable(feed_tables, REQUIRED_DATA_SPEC,
                                              RequiredTables, TRUE, EmptyMap)
        optional_data == GetNonEmptyGtfsTable(feed_tables, OPTIONAL_DATA_SPEC,
                                              OptionalTables, TRUE, EmptyMap)
    IN  IF required_data.err # "none" THEN required_data
        ELSE IF optional_data.err # "none" THEN optional_data
        ELSE [data |-> [n \in DOMAIN required_data.data \cup DOMAIN optional_data.data |->
                           IF n \in DOMAIN optional_data.data
                           THEN optional_data.data[n] ELSE required_data.data[n]],
              err  |-> "none"]

LoadTables(feed_tables) ==
    LET required_data == GetNonEmptyGtfsTable(feed_tables, REQUIRED_DATA_SPEC,
                                              RequiredTables, TRUE, EmptyMap)
        optional_data == GetNonEmptyGtfsTable(feed_tables, OPTIONAL_DATA_SPEC,
                                              OptionalTables, FALSE, EmptyMap)
    IN  IF required_data.err # "none" THEN required_data
        ELSE IF optional_data.err # "none" THEN optional_data
        ELSE [data |-> [n \in DOMAIN required_data.data \cup DOMAIN optional_data.data |->
                           IF n \in DOMAIN optional_data.data
                           THEN optional_data.data[n] ELSE required_data.data[n]],
              err  |-> "none"]

\* line 214
IdCols(columns_dtype_dict) ==
    {col \in DOMAIN columns_dtype_dict : columns_dtype_dict[col] = "string"}

\* line 215: df.dropna(subset=id_cols), a new table
DropNa(df, subset) ==
    [df EXCEPT !.rows = SelectSeq(df.rows, LAMBDA r : \A c \in subset : r[c] # Null)]

\* line 216: astype raises for a missing value in a column cast to int64
AsTypeRaises(df, columns_dtype_dict) ==
    \E c \in DOMAIN columns_dtype_dict :
        /\ columns_dtype_dict[c] = "int64"
        /\ \E i \in DOMAIN df.rows : df.rows[i][c] = Null

AsType(df, columns_dtype_dict) ==
    [df EXCEPT !.dtype = [c \in df.columns |->
                            IF c \in DOMAIN columns_dtype_dict
                            THEN columns_dtype_dict[c] ELSE df.dtype[c]]]

\* lines 215-216: the table the loop variable df is bound to after the body
CleanedTable(df, columns_dtype_dict) ==
    AsType(DropNa(df, IdCols(columns_dtype_dict)), columns_dtype_dict)

\* lines 207-218.  The loop rebinds its variable df to the table dropna
\* returns and casts the columns of that table; nothing is stored back
\* into data, so the deep copy of raw_data is returned as it was.
\* lines 207-216, by frame: data is a deep copy of raw_data (line 207); in
\* the loop df first names a table of data, then the new frame that dropna
\* returns (line 215), and the assignment of line 216 changes that frame.
\* The frames after the call, under the names raw_data, data and df.
ValidateDataFrames(raw) ==
    [f \in {"raw_data", "data", "df"} \X DOMAIN raw |->
        LET dropped == DropNa(raw[f[2]], IdCols(DataSpecs[f[2]]))
        IN  IF f[1] # "df" THEN raw[f[2]]
            ELSE IF AsTypeRaises(dropped, DataSpecs[f[2]]) THEN dropped
            ELSE AsType(dropped, DataSpecs[f[2]])]

\* self.raw_data as validate_data leaves it
RawDataAfterValidate(raw) ==
    [n \in DOMAIN raw |-> ValidateDataFrames(raw)[<<"raw_data", n>>]]

ValidateData(raw) ==
    IF \E n \in DOMAIN raw :
            AsTypeRaises(DropNa(raw[n], IdCols(DataSpecs[n])), DataSpecs[n])
    THEN [data |-> EmptyMap, err |-> "ValueError: cannot convert NA to integer"]
    ELSE [data |-> [n \in DOMAIN raw |-> raw[n]], err |-> "none"]

-----------------------------------------------------------------------------
(* get_gtfs_records: stop_times left-joined with trips, sorted by          *)
(* (route_id, trip_id, stop_sequence).  feed.stop_times[t] is the stop_id  *)
(* list of trip t in stop_sequence order (stop_sequence = position), so    *)
(* the drop_duplicates on (route_id, trip_id, direction_id, stop_sequence) *)
(* removes nothing.                                                        *)

TripKeyLE(f, t, u) ==
    \/ f.trips[t].route_id < f.trips[u].route_id
    \/ f.trips[t].route_id = f.trips[u].route_id /\ t <= u

RECURSIVE SortTrips(_, _)
SortTrips(f, S) ==
    IF S = {} THEN <<>>
    ELSE LET m == CHOOSE t \in S : \A u \in S : TripKeyLE(f, t, u)
         IN  <<m>> \o SortTrips(f, S \ {m})

TripRows(f, t) ==
    [i \in 1..Len(f.stop_times[t]) |->
        [route_id      |-> f.trips[t].route_id,
         trip_id       |-> t,
         direction_id  |-> f.trips[t].direction_id,
         stop_sequence |-> i,
         stop_id       |-> f.stop_times[t][i]]]

GetGtfsRecords(f) ==
    LET order == SortTrips(f, DOMAIN f.trips)
    IN  Flatten([k \in 1..Len(order) |-> TripRows(f, order[k])])

\* value of a stop_times column for a row of the merged table
SourceCol(f, c, r) == f.tpval[c][r.trip_id][r.stop_sequence]

-----------------------------------------------------------------------------
(* GTFS.__init__ lines 93-102: the canonical timepoint column *)

\* add_timepoints: every stop is labeled as a timepoint
AddTimepoints(recs) == [i \in 1..Len(recs) |-> 1]

\* (mutation: the test of line 95 is always true)
TimepointColumnAlwaysAdded(f, recs) == AddTimepoints(recs)

TimepointColumn(f, recs) ==
    IF f.tpcols \cap TIMEPOINT_COLS_CANDIDATE = {}
    THEN AddTimepoints(recs)
    ELSE IF "timepoints" \in f.tpcols
    THEN [i \in 1..Len(recs) |-> SourceCol(f, "timepoints", recs[i])]
    ELSE IF "checkpoint" \in f.tpcols
    THEN [i \in 1..Len(recs) |-> SourceCol(f, "checkpoint", recs[i])]
    ELSE [i \in 1..Len(recs) |-> SourceCol(f, "timepoint", recs[i])]

\* check_dataframe_column(df, column, '0or1'): every value is 0 or 1
CheckColumn0or1(col) == \A i \in DOMAIN col : col[i] \in {0, 1}

-----------------------------------------------------------------------------
(* add_branchpoints *)

\* groupby('trip_id').shift(): the neighbouring row of the same trip, 0 if none
PrevInTrip(recs, i) ==
    LET S == {j \in 1..(i-1) : recs[j].trip_id = recs[i].trip_id}
    IN  IF S = {} THEN 0 ELSE Max(S)

NextInTrip(recs, i) ==
    LET S == {j \in (i+1)..Len(recs) : recs[j].trip_id = recs[i].trip_id}
    IN  IF S = {} THEN 0 ELSE Min(S)

\* line 276: groupby('stop_id')['route_id'].agg(set)
Routes(recs, s) == {recs[j].route_id : j \in {k \in DOMAIN recs : recs[k].stop_id = s}}

\* lines 280-281: set minus the shifted set; NaN where the neighbour is missing
RoutesDiff(recs, i, j) ==
    IF j = 0 THEN NaN
    ELSE SetCell(Routes(recs, recs[i].stop_id) \ Routes(recs, recs[j].stop_id))

RoutesDiffNext(recs, i) == RoutesDiff(recs, i, NextInTrip(recs, i))

RoutesDiffPrev(recs, i) == RoutesDiff(recs, i, PrevInTrip(recs, i))

\* lines 282-283: len(x) if isinstance(x, set) else 0
DiffLen(x) == IF x.isset THEN Cardinality(x.val) ELSE 0

\* elementwise ==, False when either side is NaN
DiffEq(x, y) == x.isset /\ y.isset /\ x.val = y.val

\* lines 287-288
\* (mutation: only the next stop is compared)
BranchpointNextOnly(recs, i) ==
    IF DiffLen(RoutesDiffNext(recs, i)) > 0 THEN 1 ELSE 0

\* (mutation: the pass-through exclusion is left out)
BranchpointNoExclusion(recs, i) ==
    IF DiffLen(RoutesDiffNext(recs, i)) + DiffLen(RoutesDiffPrev(recs, i)) > 0
    THEN 1 ELSE 0

Branchpoint(recs, i) ==
    LET dn == RoutesDiffNext(recs, i)
        dp == RoutesDiffPrev(recs, i)
    IN  IF /\ DiffLen(dn) + DiffLen(dp) > 0
           /\ ~(DiffEq(dp, dn) /\ DiffLen(dp) # 0)
        THEN 1 ELSE 0

BranchpointColumn(recs) == [i \in 1..Len(recs) |-> Branchpoint(recs, i)]

\* line 292
\* (mutation: the branchpoints are left out)
TpWithoutBp(tp, bp) == [i \in DOMAIN tp |-> IF tp[i] = 1 THEN 1 ELSE 0]

TpOrBp(tp, bp) == [i \in DOMAIN tp |-> IF tp[i] = 1 \/ bp[i] = 1 THEN 1 ELSE 0]

\* lines 294-295: head(1) and tail(1) of every trip_id group
\* (mutation: tail(1) is left out)
TripEndsOnlyHead(recs, col) ==
    [i \in DOMAIN col |-> IF PrevInTrip(recs, i) = 0 THEN 1 ELSE col[i]]

MarkTripEnds(recs, col) ==
    [i \in DOMAIN col |->
        IF PrevInTrip(recs, i) = 0 \/ NextInTrip(recs, i) = 0 THEN 1 ELSE col[i]]

\* lines 298-301: lookup (route_id, stop_id) -> last tp_bp after sorting, mapped back
SameRouteStop(recs, i) ==
    {j \in DOMAIN recs : /\ recs[j].route_id = recs[i].route_id
                         /\ recs[j].stop_id = recs[i].stop_id}

\* (mutation: keep='first' after the sort)
NormalizeKeepFirst(recs, col) ==
    [i \in DOMAIN col |-> Min({col[j] : j \in SameRouteStop(recs, i)})]

NormalizeTpBp(recs, col) ==
    [i \in DOMAIN col |-> Max({col[j] : j \in SameRouteStop(recs, i)})]

-----------------------------------------------------------------------------
(* generate_patterns *)

TripIds(recs) == {recs[i].trip_id : i \in DOMAIN recs}

\* line 320: groupby('trip_id')['stop_id'].apply(list)
RECURSIVE StopIdsFrom(_, _, _)
StopIdsFrom(recs, t, i) ==
    IF i > Len(recs) THEN <<>>
    ELSE (IF recs[i].trip_id = t THEN <<recs[i].stop_id>> ELSE <<>>)
         \o StopIdsFrom(recs, t, i + 1)

StopIds(recs, t) == StopIdsFrom(recs, t, 1)

\* helper_functions.get_hash_of_stop_list: an order-sensitive digest of
\* bounded width (a polynomial in the stop ids, reduced modulo HashMod)
RECURSIVE HashFold(_, _)
HashFold(x, h) ==
    IF x = <<>> THEN h ELSE HashFold(Tail(x), (h * 7 + Head(x)) % HashMod)

GetHashOfStopList(x) == HashFold(x, 0)

TripHash(recs, t) == GetHashOfStopList(StopIds(recs, t))

\* (mutation: the hashes are counted against the trips)
HashMismatchAgainstTrips(recs) ==
    Cardinality({TripHash(recs, t) : t \in TripIds(recs)}) # Cardinality(TripIds(recs))

\* line 324: nunique of the hash column against nunique of the stop_ids column
HashMismatch(recs) ==
    Cardinality({TripHash(recs, t) : t \in TripIds(recs)})
        # Cardinality({StopIds(recs, t) : t \in TripIds(recs)})

\* lines 332-333: records['hash'] through the lookup trip_id -> hash
HashColumn(recs) ==
    LET trip_hash_lookup == [t \in TripIds(recs) |-> TripHash(recs, t)]
    IN  [i \in 1..Len(recs) |-> trip_hash_lookup[recs[i].trip_id]]

SameRouteDir(recs, i, j) ==
    /\ recs[i].route_id = recs[j].route_id
    /\ recs[i].direction_id = recs[j].direction_id

\* line 334: rows kept by drop_duplicates(['route_id', 'direction_id', 'hash'])
FirstRows(recs, hash) ==
    {i \in DOMAIN recs :
        ~\E j \in 1..(i-1) : SameRouteDir(recs, i, j) /\ hash[i] = hash[j]}

\* line 335: groupby(['route_id','direction_id']).cumcount()+1 on the kept
\* rows, then .reindex(records.index).ffill(): a row that was dropped takes
\* the value of the nearest kept row above it
HashCountColumn(recs, hash) ==
    LET kept == FirstRows(recs, hash)
        cumcount == [i \in kept |->
                        Cardinality({j \in kept : j <= i /\ SameRouteDir(recs, i, j)})]
    IN  [i \in 1..Len(recs) |-> cumcount[Max({j \in kept : j <= i})]]

\* line 337: route_id-direction_id-hash_count
PatternColumn(recs) ==
    LET hash_count == HashCountColumn(recs, HashColumn(recs))
    IN  [i \in 1..Len(recs) |->
            <<recs[i].route_id, recs[i].direction_id, hash_count[i]>>]

\* line 341: set_index('hash')['stop_ids'].to_dict(), the last trip of a hash wins
HashStopsLookup(recs, h) ==
    StopIds(recs, Max({t \in TripIds(recs) : TripHash(recs, t) = h}))

\* lines 343-345: set_index('pattern')['stop_ids'].to_dict(), the last row wins
PatternStopsLookup(recs, pat, p) ==
    LET last == Max({i \in DOMAIN pat : pat[i] = p})
    IN  HashStopsLookup(recs, TripHash(recs, recs[last].trip_id))

\* a dict as the sequence of its items in insertion order
DictPut(d, k, v) ==
    IF \E j \in DOMAIN d : d[j].key = k
    THEN [j \in DOMAIN d |-> IF d[j].key = k THEN [key |-> k, val |-> v] ELSE d[j]]
    ELSE Append(d, [key |-> k, val |-> v])

DictKeys(d) == [j \in DOMAIN d |-> d[j].key]

\* lines 355-356: {(stop_ids[i], stop_ids[i+1]): [coords, coords] for i in range(len-1)}
RECURSIVE SegmentsFrom(_, _, _, _)
SegmentsFrom(f, stop_ids, i, d) ==
    IF i >= Len(stop_ids) THEN d
    ELSE SegmentsFrom(f, stop_ids, i + 1,
            DictPut(d, <<stop_ids[i], stop_ids[i+1]>>,
                    <<f.stops[stop_ids[i]], f.stops[stop_ids[i+1]]>>))

Segments(f, stop_ids) == SegmentsFrom(f, stop_ids, 1, <<>>)

GeneratePatterns(f, recs, pat) ==
    [p \in Range(pat) |-> Segments(f, PatternStopsLookup(recs, pat, p))]

-----------------------------------------------------------------------------
(* improve_pattern_with_shapes *)

Dist2(a, b) == (a[1] - b[1]) * (a[1] - b[1]) + (a[2] - b[2]) * (a[2] - b[2])

\* __find_nearest_point: argmin of the Euclidean distances (first minimum)
FindNearestPoint(coord_list, coord) ==
    Min({i \in DOMAIN coord_list :
            \A j \in DOMAIN coord_list :
                Dist2(coord_list[i], coord) <= Dist2(coord_list[j], coord)})

\* lines 412-421: the loop over the segments of one pattern, from segment k on,
\* with shape_coords the part of the polyline that is left
RECURSIVE MatchSegments(_, _, _)
MatchSegments(segments, k, shape_coords) ==
    IF k > Len(segments) THEN segments
    ELSE LET coord_list == segments[k].val
             first_stop_match_index == FindNearestPoint(shape_coords, coord_list[1])
             last_stop_match_index ==
                 FindNearestPoint(shape_coords, coord_list[Len(coord_list)])
             intermediate_shape_coords ==
                 SubSeq(shape_coords, first_stop_match_index, last_stop_match_index)
             rest == SubSeq(shape_coords, last_stop_match_index, Len(shape_coords))
         IN  MatchSegments(
                 IF Len(intermediate_shape_coords) > 2
                 THEN [segments EXCEPT ![k].val = intermediate_shape_coords]
                 ELSE segments,
                 k + 1, rest)

\* lines 412-419: the indices matched for the segments from k on, counted as
\* positions (from 1) in the whole polyline of the shape; offset is the number
\* of points that line 419 has cut off the front of shape_coords so far
RECURSIVE MatchIndexes(_, _, _, _)
MatchIndexes(segments, k, shape_coords, offset) ==
    IF k > Len(segments) THEN <<>>
    ELSE LET coord_list == segments[k].val
             first_stop_match_index == FindNearestPoint(shape_coords, coord_list[1])
             last_stop_match_index ==
                 FindNearestPoint(shape_coords, coord_list[Len(coord_list)])
             rest == SubSeq(shape_coords, last_stop_match_index, Len(shape_coords))
         IN  <<[first |-> offset + first_stop_match_index,
                last  |-> offset + last_stop_match_index]>> \o
             MatchIndexes(segments, k + 1, rest, offset + last_stop_match_index - 1)

\* lines 388-389: trip_ids of a pattern, in the order of their first row
RECURSIVE PatternTripsFrom(_, _, _, _, _)
PatternTripsFrom(recs, pat, p, i, acc) ==
    IF i > Len(recs) THEN acc
    ELSE PatternTripsFrom(recs, pat, p, i + 1,
            IF pat[i] = p /\ recs[i].trip_id \notin Range(acc)
            THEN Append(acc, recs[i].trip_id) ELSE acc)

PatternTrips(recs, pat, p) == PatternTripsFrom(recs, pat, p, 1, <<>>)

\* line 385: every trip of the trips table is a key, a null shape_id included
TripShapeLookup(f) == [t \in DOMAIN f.trips |-> f.trips[t].shape_id]

\* line 396: next(trip_shape_lookup[t] for t in trips if t in trip_shape_lookup);
\* -1 where the generator is exhausted
ExampleShape(f, trips) ==
    LET S == {k \in DOMAIN trips : trips[k] \in DOMAIN TripShapeLookup(f)}
    IN  IF S = {} THEN -1 ELSE TripShapeLookup(f)[trips[Min(S)]]

\* lines 402-406: the polyline of the example shape, if the shapes table has it
ShapeFound(f, recs, pat, p) ==
    ExampleShape(f, PatternTrips(recs, pat, p)) \in DOMAIN f.shapes

ImprovePatternWithShapes(f, recs, pat, patterns) ==
    [p \in DOMAIN patterns |->
        IF ShapeFound(f, recs, pat, p)
        THEN MatchSegments(patterns[p], 1,
                           f.shapes[ExampleShape(f, PatternTrips(recs, pat, p))])
        ELSE patterns[p]]

ShapeUsed(f, recs, pat, patterns) ==
    [p \in DOMAIN patterns |->
        IF ShapeFound(f, recs, pat, p)
        THEN ExampleShape(f, PatternTrips(recs, pat, p))
        ELSE NoShape]

MatchIndex(f, recs, pat, patterns) ==
    [p \in DOMAIN patterns |->
        IF ShapeFound(f, recs, pat, p)
        THEN MatchIndexes(patterns[p], 1,
                          f.shapes[ExampleShape(f, PatternTrips(recs, pat, p))], 0)
        ELSE <<>>]

-----------------------------------------------------------------------------
(* generate_timepoints_output.  A tpbp_pair cell is <<stop_id, next_tpbp>>, *)
(* next_tpbp = NoStop where shift(-1) leaves NaN; <<>> is a cell without a  *)
(* value.                                                                   *)

NoStop == 0

\* lines 435-438: the tpbp_pair of row i, by its index label
TpbpPairCell(recs, tpbp, i) ==
    IF tpbp[i] # 1 THEN <<>>
    ELSE LET later == {j \in (i + 1)..Len(recs) :
                          recs[j].trip_id = recs[i].trip_id /\ tpbp[j] = 1}
         IN  <<recs[i].stop_id,
               IF later = {} THEN NoStop ELSE recs[Min(later)].stop_id>>

\* lines 440-441: the rows that have a next stop in their trip
RowsWithNextStop(recs) ==
    SelectSeq([i \in DOMAIN recs |-> i], LAMBDA i : NextInTrip(recs, i) # 0)

\* line 443: fillna(method='ffill') over the whole column
RECURSIVE FillForward(_, _, _)
FillForward(recs, cells, k) ==
    IF cells[k] # <<>> THEN cells[k]
    ELSE IF k = 1 THEN <<>>
    ELSE FillForward(recs, cells, k - 1)

\* lines 433-449: segment_index -> tpbp_pair, the last row of a key wins.
\* The key route_id-stop_id-next_stop is the triple of its parts.
GenerateTimepointsOutput(recs, tpbp) ==
    LET kept == RowsWithNextStop(recs)
        rows == [k \in DOMAIN kept |-> recs[kept[k]]]
        cells == [k \in DOMAIN kept |-> TpbpPairCell(recs, tpbp, kept[k])]
        filled == [k \in DOMAIN kept |-> FillForward(rows, cells, k)]
        segment_index ==
            [k \in DOMAIN kept |->
                <<recs[kept[k]].route_id, recs[kept[k]].stop_id,
                  recs[NextInTrip(recs, kept[k])].stop_id>>]
    IN  [key \in Range(segment_index) |->
            filled[Max({k \in DOMAIN kept : segment_index[k] = key})]]

-----------------------------------------------------------------------------
(* Inputs: the validated GTFS tables the constructor starts from *)

AllStops == 1..5

\* stops table: stop_id -> (stop_lat, stop_lon)
StopCoords == [s \in AllStops |-> <<2 * s, 0>>]

\* shapes table with one shape (shape_id 1), a polyline along the stops
ShapeTable == [k \in {1} |-> <<<<2, 0>>, <<3, 0>>, <<4, 0>>, <<5, 0>>, <<6, 0>>>>]

\* values of a stop_times column, by the rule k that fills it
ColValue(k, t, i) ==
    CASE k = 0 -> 0
      [] k = 1 -> 1
      [] k = 2 -> (t + i) % 2
      [] OTHER -> i % 3

\* which of the candidate columns exist (rule -1: the column is absent)
ColRules ==
    [TIMEPOINT_COLS_CANDIDATE ->  -1..3] \cap
    {c \in [TIMEPOINT_COLS_CANDIDATE -> -1..3] :
        c["timepoints"] \in {-1, 1} /\ c["checkpoint"] \in {-1, 2}}

NoCols == [c \in TIMEPOINT_COLS_CANDIDATE |-> -1]

MkFeed(tr, st, rules, shp, gen) ==
    [trips      |-> tr,
     stop_times |-> st,
     tpcols     |-> {c \in TIMEPOINT_COLS_CANDIDATE : rules[c] # -1},
     tpval      |-> [c \in {c \in TIMEPOINT_COLS_CANDIDATE : rules[c] # -1} |->
                        [t \in DOMAIN st |->
                            [i \in DOMAIN st[t] |-> ColValue(rules[c], t, i)]]],
     stops      |-> StopCoords,
     shapes     |-> shp,
     shape_gen  |-> gen]

TripRec(Rs, Ds, Ss) == [route_id : Rs, direction_id : Ds, shape_id : Ss]

\* trips of one or two routes and directions over few stop sequences, two of
\* which have the same digest; no timepoint column, no shapes table
PatSeqs == {<<1, 2>>, <<1, 2, 3>>, <<1, 2, 1, 2>>}

FeedsPat(N) ==
    UNION {{MkFeed(tr, st, NoCols, EmptyMap, TRUE) :
                tr \in [1..n -> TripRec(1..2, 0..1, {0})], st \in [1..n -> PatSeqs]} :
           n \in 1..N}

\* trips of two routes that share some stops, with every combination of
\* candidate timepoint columns
TpSeqs == {<<1, 2, 3>>, <<1, 2, 4>>, <<4, 2>>, <<3, 2, 3, 1>>}

FeedsTp(N) ==
    UNION {{MkFeed(tr, st, rules, EmptyMap, TRUE) :
                tr \in [1..n -> TripRec(1..2, {0}, {0})], st \in [1..n -> TpSeqs],
                rules \in ColRules} :
           n \in 1..N}

\* route 1 visits [A,B,C,D] and route 2 visits [A,B,E,D] (A..E = 1, 2, 3, 4, 5)
FeedsScenario ==
    {MkFeed(tr, <<<<1, 2, 3, 4>>, <<1, 2, 5, 4>>>>, rules, EmptyMap, TRUE) :
        tr \in {t \in [1..2 -> TripRec(1..2, 0..1, {0})] :
                    t[1].route_id = 1 /\ t[2].route_id = 2},
        rules \in ColRules}

\* trips of one route whose shape_id is null (0), in the shapes table (1) or
\* not in it (2), with and without a shapes table
ShapeSeqs == {<<1, 2, 3>>, <<1, 3>>}

FeedsShape(N) ==
    UNION {{MkFeed(tr, st, NoCols, shp, gen) :
                tr \in [1..n -> TripRec({1}, {0}, 0..2)], st \in [1..n -> ShapeSeqs],
                shp \in {EmptyMap, ShapeTable}, gen \in BOOLEAN} :
           n \in 1..N}

\* trips of one route, one of which runs the pair (1, 2) twice, with a shapes
\* table of two polylines: shape 1 runs straight along the stops, shape 2
\* runs from stop 1 to stop 2, back to stop 1 and then on to stop 3
MatchSeqs == {<<1, 2, 3>>, <<1, 3>>, <<1, 2, 1, 2, 3>>}

MatchShapes ==
    [k \in {1, 2} |->
        IF k = 1 THEN <<<<2, 0>>, <<3, 0>>, <<4, 0>>, <<5, 0>>, <<6, 0>>>>
        ELSE <<<<2, 0>>, <<3, 0>>, <<4, 0>>, <<3, 0>>, <<2, 0>>,
               <<3, 0>>, <<4, 0>>, <<5, 0>>, <<6, 0>>>>]

FeedsMatch(N) ==
    UNION {{MkFeed(tr, st, NoCols, MatchShapes, gen) :
                tr \in [1..n -> TripRec({1}, {0}, 1..2)], st \in [1..n -> MatchSeqs],
                gen \in BOOLEAN} :
           n \in 1..N}

\* what load_data reads.  Dates are 1, 2; the calendar maps some of them to
\* their service_ids, or reading it raises KeyError.
Dates == 1..2

Calendars ==
    {[raises |-> TRUE, ids |-> EmptyMap]} \cup
    {[raises |-> FALSE, ids |-> c] :
        c \in UNION {[D -> {{1}, {1, 2}}] : D \in SUBSET Dates}}

\* the column of each table that the variants below leave out or leave null
StringCol ==
    [stops |-> "stop_name", routes |-> "route_id", trips |-> "trip_id",
     stop_times |-> "stop_id", shapes |-> "shape_id"]

NumberCol ==
    [stops |-> "stop_lat", routes |-> "route_type", trips |-> "direction_id",
     stop_times |-> "stop_sequence", shapes |-> "shape_pt_sequence"]

\* a table as read from the archive: string columns have dtype object
RawTable(n, cols, rows) ==
    [columns |-> cols,
     dtype   |-> [c \in cols |-> IF DataSpecs[n][c] = "string"
                                 THEN "object" ELSE DataSpecs[n][c]],
     rows    |-> rows]

FullRows(n) == <<[c \in DOMAIN DataSpecs[n] |-> 1], [c \in DOMAIN DataSpecs[n] |-> 2]>>

\* variants of table n: 1 no rows, 2 a spec column is not there, 3 complete,
\* 4 a null in a string column, 5 a null in a numeric column
TableVariant(n, v) ==
    CASE v = 1 -> RawTable(n, DOMAIN DataSpecs[n], <<>>)
      [] v = 2 -> RawTable(n, DOMAIN DataSpecs[n] \ {StringCol[n]},
                     [i \in 1..2 |->
                        [c \in DOMAIN DataSpecs[n] \ {StringCol[n]} |-> i]])
      [] v = 3 -> RawTable(n, DOMAIN DataSpecs[n], FullRows(n))
      [] v = 4 -> RawTable(n, DOMAIN DataSpecs[n],
                     [FullRows(n) EXCEPT ![2][StringCol[n]] = Null])
      [] OTHER -> RawTable(n, DOMAIN DataSpecs[n],
                     [FullRows(n) EXCEPT ![2][NumberCol[n]] = Null])

\* the tables of a feed: variant 0 is a table the feed does not have
FeedTables(choice) ==
    [n \in {m \in DOMAIN choice : choice[m] # 0} |-> TableVariant(n, choice[n])]

\* every calendar and date list with a feed in which at most one table is
\* not complete, and every feed with one calendar and date list
Envs(x) ==
    {[date_list |-> dl, calendar |-> cal, feed_tables |-> FeedTables(ch)] :
        dl \in SUBSET Dates, cal \in Calendars,
        ch \in {c \in [DOMAIN DataSpecs -> 0..5] :
                    Cardinality({n \in DOMAIN c : c[n] # 3}) <= x}} \cup
    {[date_list |-> {1}, calendar |-> [raises |-> FALSE, ids |-> [d \in {1} |-> {1}]],
      feed_tables |-> FeedTables(ch)] :
        ch \in [DOMAIN DataSpecs -> 0..5]}

NoEnv == [date_list |-> {}, calendar |-> [raises |-> FALSE, ids |-> EmptyMap],
          feed_tables |-> EmptyMap]

NotLoaded == [loaded |-> FALSE, service_id |-> {}, tables |-> EmptyMap]

-----------------------------------------------------------------------------
(* The constructor GTFS.__init__ as a state machine *)

\* the variables of __main__ and of the output step while neither runs
MainIdle ==
    /\ tpbp_dict = <<>>
    /\ main = [x \in {} |-> 0]
    /\ bound = {}
    /\ files = {}
    /\ stages = <<>>
    /\ time_period_full = <<>>
    /\ all_10_min_intervals = <<>>

InitFrom(F) ==
    /\ MainIdle
    /\ feed \in F
    /\ pc = "get_gtfs_records"
    /\ records = <<>>
    /\ timepoint = <<>>
    /\ branchpoint = <<>>
    /\ tp_bp = <<>>
    /\ pattern = <<>>
    /\ patterns_dict = EmptyMap
    /\ shape_used = EmptyMap
    /\ match_index = EmptyMap
    /\ err = "none"
    /\ env = NoEnv
    /\ service_id_list = {}
    /\ ptg_feed = NotLoaded
    /\ raw_data = EmptyMap
    /\ validated_data = EmptyMap
    /\ margs = EmptyMap
    /\ mc = EmptyMap

Init == InitFrom(FeedsPat(MaxTrips))

InitTp == InitFrom(FeedsTp(MaxTripsTp))

InitScenario == InitFrom(FeedsScenario)

InitShape == InitFrom(FeedsShape(MaxTrips))

InitMatch == InitFrom(FeedsMatch(MaxTripsTp))

\* line 91
GetRecordsStep ==
    /\ pc = "get_gtfs_records"
    /\ records' = GetGtfsRecords(feed)
    /\ pc' = "timepoint"
    /\ UNCHANGED <<feed, timepoint, branchpoint, tp_bp, pattern,
                   patterns_dict, shape_used, match_index, err>>
    /\ UNCHANGED <<loadVars, metricVars>>
    /\ UNCHANGED <<tpbp_dict, mainVars>>

\* lines 93-102
TimepointStep ==
    /\ pc = "timepoint"
    /\ timepoint' = TimepointColumn(feed, records)
    /\ IF CheckColumn0or1(timepoint')
       THEN pc' = "add_branchpoints" /\ err' = err
       ELSE pc' = "failed" /\ err' = "timepoint not 0or1"
    /\ UNCHANGED <<feed, records, branchpoint, tp_bp, pattern,
                   patterns_dict, shape_used, match_index>>
    /\ UNCHANGED <<loadVars, metricVars>>
    /\ UNCHANGED <<tpbp_dict, mainVars>>

\* lines 106-107
AddBranchpointsStep ==
    /\ pc = "add_branchpoints"
    /\ branchpoint' = BranchpointColumn(records)
    /\ tp_bp' = NormalizeTpBp(records,
                    MarkTripEnds(records, TpOrBp(timepoint, branchpoint')))
    /\ IF CheckColumn0or1(branchpoint')
       THEN pc' = "generate_patterns" /\ err' = err
       ELSE pc' = "failed" /\ err' = "branchpoint not 0or1"
    /\ UNCHANGED <<feed, records, timepoint, pattern, patterns_dict,
                   shape_used, match_index>>
    /\ UNCHANGED <<loadVars, metricVars>>
    /\ UNCHANGED <<tpbp_dict, mainVars>>

\* line 110
GeneratePatternsStep ==
    /\ pc = "generate_patterns"
    /\ IF HashMismatch(records)
       THEN /\ pc' = "failed"
            /\ err' = "ValueError: unique hashes"
            /\ UNCHANGED <<pattern, patterns_dict>>
       ELSE /\ pattern' = PatternColumn(records)
            /\ patterns_dict' = GeneratePatterns(feed, records, pattern')
            /\ pc' = "improve_pattern_with_shapes"
            /\ err' = err
    /\ UNCHANGED <<feed, records, timepoint, branchpoint, tp_bp,
                   shape_used, match_index>>
    /\ UNCHANGED <<loadVars, metricVars>>
    /\ UNCHANGED <<tpbp_dict, mainVars>>

\* lines 112-114
ImprovePatternStep ==
    /\ pc = "improve_pattern_with_shapes"
    /\ IF DOMAIN feed.shapes # {} /\ feed.shape_gen
       THEN /\ patterns_dict' =
                    ImprovePatternWithShapes(feed, records, pattern, patterns_dict)
            /\ shape_used' = ShapeUsed(feed, records, pattern, patterns_dict)
            /\ match_index' = MatchIndex(feed, records, pattern, patterns_dict)
       ELSE /\ patterns_dict' = patterns_dict
            /\ shape_used' = [p \in DOMAIN patterns_dict |-> NoShape]
            /\ match_index' = [p \in DOMAIN patterns_dict |-> <<>>]
    /\ pc' = "outputs"
    /\ UNCHANGED <<feed, records, timepoint, branchpoint, tp_bp, pattern, err>>
    /\ UNCHANGED <<loadVars, metricVars>>
    /\ UNCHANGED <<tpbp_dict, mainVars>>

\* line 116
GenerateTimepointsOutputStep ==
    /\ pc = "outputs"
    /\ tpbp_dict' = GenerateTimepointsOutput(records, tp_bp)
    /\ pc' = "constructed"
    /\ UNCHANGED <<gtfsVars, err, loadVars, metricVars, mainVars>>

Next ==
    \/ GetRecordsStep
    \/ TimepointStep
    \/ AddBranchpointsStep
    \/ GeneratePatternsStep
    \/ ImprovePatternStep
    \/ GenerateTimepointsOutputStep

Spec == Init /\ [][Next]_vars

SpecTp == InitTp /\ [][Next]_vars

SpecScenario == InitScenario /\ [][Next]_vars

SpecShape == InitShape /\ [][Next]_vars

SpecMatch == InitMatch /\ [][Next]_vars

-----------------------------------------------------------------------------
(* lines 84 and 88 of the constructor: load_data and validate_data *)

InitLoad ==
    /\ MainIdle
    /\ env \in Envs(MaxFaulty)
    /\ pc = "read_service_ids"
    /\ err = "none"
    /\ service_id_list = {}
    /\ ptg_feed = NotLoaded
    /\ raw_data = EmptyMap
    /\ validated_data = EmptyMap
    /\ feed = MkFeed(<<>>, <<>>, NoCols, EmptyMap, TRUE)
    /\ records = <<>>
    /\ timepoint = <<>>
    /\ branchpoint = <<>>
    /\ tp_bp = <<>>
    /\ pattern = <<>>
    /\ patterns_dict = EmptyMap
    /\ shape_used = EmptyMap
    /\ match_index = EmptyMap
    /\ margs = EmptyMap
    /\ mc = EmptyMap

\* lines 134-147: a KeyError is logged and ends the run with quit(); min() of
\* an empty calendar raises ValueError, which the handler does not catch
ReadServiceIdsStep ==
    /\ pc = "read_service_ids"
    /\ IF env.calendar.raises
       THEN /\ pc' = "failed"
            /\ err' = "SystemExit: service ids not found"
            /\ UNCHANGED service_id_list
       ELSE IF DOMAIN env.calendar.ids = {}
       THEN /\ pc' = "failed"
            /\ err' = "ValueError: min() arg is an empty sequence"
            /\ UNCHANGED service_id_list
       ELSE /\ service_id_list' = ServiceIdList(env.date_list, env.calendar.ids)
            /\ pc' = "load_feed"
            /\ err' = err
    /\ UNCHANGED <<env, ptg_feed, raw_data, validated_data, gtfsVars, metricVars>>
    /\ UNCHANGED <<tpbp_dict, mainVars>>

\* lines 150-151: the feed filtered by the view; a feed reads its tables on
\* access, and which of them it has is decided by the archive
LoadFeedStep ==
    /\ pc = "load_feed"
    /\ ptg_feed' = [loaded |-> TRUE, service_id |-> service_id_list,
                    tables |-> env.feed_tables]
    /\ pc' = "get_tables"
    /\ UNCHANGED <<env, service_id_list, raw_data, validated_data, err, gtfsVars, metricVars>>
    /\ UNCHANGED <<tpbp_dict, mainVars>>

\* lines 154-159 and the assignment of line 84
GetTablesStep ==
    /\ pc = "get_tables"
    /\ LET loaded == LoadTables(ptg_feed.tables)
       IN  IF loaded.err = "none"
           THEN /\ raw_data' = loaded.data
                /\ pc' = "validate_data"
                /\ err' = err
           ELSE /\ raw_data' = raw_data
                /\ pc' = "failed"
                /\ err' = loaded.err
    /\ UNCHANGED <<env, service_id_list, ptg_feed, validated_data, gtfsVars, metricVars>>
    /\ UNCHANGED <<tpbp_dict, mainVars>>

\* line 88
ValidateDataStep ==
    /\ pc = "validate_data"
    /\ LET validated == ValidateData(raw_data)
       IN  IF validated.err = "none"
           THEN /\ validated_data' = validated.data
                /\ pc' = "validated"
                /\ err' = err
           ELSE /\ validated_data' = validated_data
                /\ pc' = "failed"
                /\ err' = validated.err
    /\ raw_data' = RawDataAfterValidate(raw_data)
    /\ UNCHANGED <<env, service_id_list, ptg_feed, gtfsVars, metricVars>>
    /\ UNCHANGED <<tpbp_dict, mainVars>>

NextLoad ==
    \/ ReadServiceIdsStep
    \/ LoadFeedStep
    \/ GetTablesStep
    \/ ValidateDataStep

SpecLoad == InitLoad /\ [][NextLoad]_vars

-----------------------------------------------------------------------------
(* Metric_Calculation (backend/metrics/metric_calculation.py).  A table is  *)
(* a record of its columns and its rows; a row is a function from "index"   *)
(* (its index label) and the columns to cells.  Row labels count from 1.    *)
(* The object is the function mc from the names of the attributes that have *)
(* been assigned to their values; reading any other attribute raises        *)
(* AttributeError.                                                          *)

HasAttr(obj, name) == name \in DOMAIN obj

SetAttr(obj, name, value) ==
    [a \in DOMAIN obj \cup {name} |-> IF a = name THEN value ELSE obj[a]]

\* a row with the cells of f added or replaced
Extend(r, f) ==
    [c \in DOMAIN r \cup DOMAIN f |-> IF c \in DOMAIN f THEN f[c] ELSE r[c]]

Positions(rows) == [i \in DOMAIN rows |-> i]

\* records.loc[records[col] == value, :]: the rows keep their labels
FilterRows(table, col, value) ==
    [table EXCEPT !.rows = SelectSeq(table.rows, LAMBDA r : r[col] = value)]

\* lines 107-109
RenameRoute(recs) ==
    IF "route" \notin recs.columns THEN recs
    ELSE [columns |-> (recs.columns \ {"route"}) \cup {"route_id"},
          rows    |-> [i \in DOMAIN recs.rows |->
                         [c \in (DOMAIN recs.rows[i] \ {"route"}) \cup {"route_id"} |->
                            IF c = "route_id" THEN recs.rows[i]["route"]
                            ELSE recs.rows[i][c]]]]

\* groupby(by=groups)[col].shift(-1) at row i takes the cell of the next row
\* of the same group: the position of that row, 0 where there is none
NextInGroup(rows, groups, i) ==
    LET later == {j \in (i + 1)..Len(rows) :
                    \A g \in groups : rows[j][g] = rows[i][g]}
    IN  IF later = {} THEN 0 ELSE Min(later)

\* lines 101-119 (type is 'GTFS' or 'AVL' in every call)
PrepareStopEventRecords(recs, type) ==
    LET groups == IF type = "GTFS" THEN {"trip_id"} ELSE {"svc_date", "trip_id"}
        arrival_time_col == IF type = "GTFS" THEN "arrival_time" ELSE "stop_time"
        renamed == IF type = "AVL" THEN RenameRoute(recs) ELSE recs
        rows == renamed.rows
        kept == SelectSeq(Positions(rows),
                          LAMBDA i : NextInGroup(rows, groups, i) # 0)
    IN  [columns |-> renamed.columns \cup
                        {"next_stop", "next_stop_arrival_time", "stop_pair"},
         rows    |-> [k \in DOMAIN kept |->
                        LET i == kept[k]
                            j == NextInGroup(rows, groups, kept[k])
                        IN  Extend(rows[i],
                                [next_stop |-> rows[j].stop_id,
                                 next_stop_arrival_time |-> rows[j][arrival_time_col],
                                 stop_pair |-> <<rows[i].stop_id, rows[j].stop_id>>])]]

\* a cell without a value (pandas NaN)
NA == -1000000

\* lines 114-116: the frame with the three columns, before line 117 drops
\* the rows without a next stop
WithNextStop(recs, type) ==
    LET groups == IF type = "GTFS" THEN {"trip_id"} ELSE {"svc_date", "trip_id"}
        arrival_time_col == IF type = "GTFS" THEN "arrival_time" ELSE "stop_time"
        rows == recs.rows
    IN  [columns |-> recs.columns \cup
                        {"next_stop", "next_stop_arrival_time", "stop_pair"},
         rows    |-> [i \in DOMAIN rows |->
                        LET j == NextInGroup(rows, groups, i)
                        IN  Extend(rows[i],
                                [next_stop |-> IF j = 0 THEN NA ELSE rows[j].stop_id,
                                 next_stop_arrival_time |->
                                    IF j = 0 THEN NA ELSE rows[j][arrival_time_col],
                                 stop_pair |->
                                    <<rows[i].stop_id,
                                      IF j = 0 THEN NA ELSE rows[j].stop_id>>])]]

\* records.reset_index(inplace=True): the frame itself
ResetIndexInPlace(frames, ref) == [frames |-> frames, ref |-> ref]

\* line 113: deepcopy(records).reset_index() is a new frame
DeepcopyResetIndex(frames, ref) ==
    [frames |-> frames @@ ("copied" :> frames[ref]), ref |-> "copied"]

\* lines 101-119, by frame: the frames that exist when the call returns.
\* "argument" is the table of the caller; records names the argument, then
\* the renamed frame (line 107, AVL), then the copy of line 113, which the
\* assignments of lines 114-116 change; line 117 returns a new frame.
PrepareFrames(recs, type) ==
    LET start == [frames |-> ("argument" :> recs), ref |-> "argument"]
        named == IF type = "AVL"
                 THEN [frames |-> start.frames @@ ("renamed" :> RenameRoute(recs)),
                       ref |-> "renamed"]
                 ELSE start
        copied == DeepcopyResetIndex(named.frames, named.ref)
        written == [copied.frames EXCEPT ![copied.ref] = WithNextStop(@, type)]
    IN  written @@ ("returned" :> PrepareStopEventRecords(recs, type))

\* the table of the caller as __prepare_stop_event_records leaves it
ArgumentAfterPrepare(recs, type) == PrepareFrames(recs, type)["argument"]

\* table[cols]
Project(table, cols) ==
    [columns |-> cols,
     rows    |-> [i \in DOMAIN table.rows |->
                    [c \in cols \cup {"index"} |-> table.rows[i][c]]]]

SameCells(r, q, cols) == \A c \in cols : r[c] = q[c]

\* drop_duplicates(): the first row of every combination of cells
DropDuplicates(table) ==
    LET rows == table.rows
        kept == SelectSeq(Positions(rows),
                    LAMBDA i : \A j \in 1..(i - 1) :
                                  ~SameCells(rows[i], rows[j], table.columns))
    IN  [table EXCEPT !.rows = [k \in DOMAIN kept |-> rows[kept[k]]]]

\* df.merge(right, on=on, how='left'): every left row, once per matching
\* right row and once with empty cells if there is none, in the order of the
\* left rows; the result has a new index
LeftMerge(left, right, on) ==
    LET added == right.columns \ on
        Matches(r) == SelectSeq(right.rows, LAMBDA q : SameCells(r, q, on))
        Joined(r) ==
            IF Matches(r) = <<>> THEN <<Extend(r, [c \in added |-> NA])>>
            ELSE [k \in DOMAIN Matches(r) |->
                    Extend(r, [c \in added |-> Matches(r)[k][c]])]
        rows == Flatten([i \in DOMAIN left.rows |-> Joined(left.rows[i])])
    IN  [columns |-> left.columns \cup right.columns,
         rows    |-> [i \in DOMAIN rows |-> Extend(rows[i], [index |-> i])]]

\* lines 44-49, once gtfs_stop_metrics has been read
GtfsRouteMetrics(gtfs_stop_metrics, key_columns) ==
    LeftMerge(
        DropDuplicates(Project(gtfs_stop_metrics,
            Range(key_columns) \cup {"trip_start_time", "trip_end_time"})),
        DropDuplicates(Project(gtfs_stop_metrics, {"trip_id", "service_id"})),
        {"trip_id"})

GTFS_ROUTE_METRICS_KEY_COLUMNS == <<"pattern", "route_id", "direction_id", "trip_id">>

\* lines 40-42
PrepareMetrics(obj, gtfs_records) ==
    SetAttr(SetAttr(obj, "stop_metrics",
                    PrepareStopEventRecords(gtfs_records, "GTFS")),
            "tpbp_metrics",
            PrepareStopEventRecords(
                FilterRows(gtfs_records, "tp_bp", 1), "GTFS"))

-----------------------------------------------------------------------------
(* The metric methods.  A method is an operator from the object (and the    *)
(* arguments) to the object it leaves and the exception it raises, "none"   *)
(* if it returns.  Times are in seconds; running times are in hundredths of *)
(* a minute, so that round(2) is a rounding to an integer.                  *)

\* round(): a / b (b > 0) to the nearest integer, a tie to the even one
RoundHalfEven(a, b) ==
    LET q == a \div b
        r == a % b
    IN  IF 2 * r < b THEN q
        ELSE IF 2 * r > b THEN q + 1
        ELSE IF q % 2 = 0 THEN q ELSE q + 1

RECURSIVE SumSeq(_)
SumSeq(vals) == IF vals = <<>> THEN 0 ELSE Head(vals) + SumSeq(Tail(vals))

NotNA(vals) == SelectSeq(vals, LAMBDA v : v # NA)

\* sum() of a group: empty cells are skipped
SumSkipNa(vals) == SumSeq(NotNA(vals))

\* agg('mean').round(n) of a group of cells in units of 10^-n: empty cells
\* are skipped, and the mean of none is empty
RoundedMean(vals) ==
    IF NotNA(vals) = <<>> THEN NA
    ELSE RoundHalfEven(SumSeq(NotNA(vals)), Len(NotNA(vals)))

\* the mean of the percentages 100 * c / t of the pairs <<c, t>>, rounded to
\* an integer
RECURSIVE ProdSeq(_)
ProdSeq(vals) == IF vals = <<>> THEN 1 ELSE Head(vals) * ProdSeq(Tail(vals))

PercentMean(pairs) ==
    LET totals == [k \in DOMAIN pairs |-> pairs[k][2]]
        d == ProdSeq(totals)
    IN  RoundHalfEven(
            SumSeq([k \in DOMAIN pairs |-> 100 * pairs[k][1] * (d \div pairs[k][2])]),
            d * Len(pairs))

\* the aggregations of the methods, applied to the cells of one group:
\* sum(), agg('mean').round(n), the pair <<sum of is_on_time, count>> of
\* lines 339-340, and the rounded mean of the percentages of such pairs
Aggregate(agg, vals) ==
    CASE agg = "sum" -> SumSkipNa(vals)
      [] agg = "mean" -> RoundedMean(vals)
      [] agg = "on_time_of_total" -> <<SumSeq(vals), Len(vals)>>
      [] agg = "percent_mean" -> PercentMean(vals)

\* groupby(keys)[col].agg(...).reset_index(): one row per combination of key
\* cells, here in the order of first appearance (pandas orders them by key;
\* these tables are only used as the right side of a merge)
GroupBy(table, keys, col, agg) ==
    LET rows == table.rows
        firsts == SelectSeq(Positions(rows),
                     LAMBDA i : \A j \in 1..(i - 1) : ~SameCells(rows[i], rows[j], keys))
        Cells(i) == LET members == SelectSeq(rows, LAMBDA q : SameCells(q, rows[i], keys))
                    IN  [k \in DOMAIN members |-> members[k][col]]
    IN  [columns |-> keys \cup {col},
         rows    |-> [k \in DOMAIN firsts |->
                        Extend([c \in keys |-> rows[firsts[k]][c]],
                               [c \in {"index", col} |->
                                    IF c = "index" THEN k
                                    ELSE Aggregate(agg, Cells(firsts[k]))])]]

\* df[col] = values, one value per row
WithColumn(table, col, values) ==
    [columns |-> table.columns \cup {col},
     rows    |-> [i \in DOMAIN table.rows |->
                    Extend(table.rows[i], [c \in {col} |-> values[i]])]]

\* clip(lower=...) without a bound
ClipNothing(x, lower) == x

\* clip(lower=...)
ClipLower(x, lower) == IF x = NA \/ x >= lower THEN x ELSE lower

\* (seconds / 60).round(2), in hundredths of a minute
MinutesRound2(seconds) ==
    IF seconds = NA THEN NA ELSE RoundHalfEven(seconds * 100, 60)

\* groupby(['trip_id'])['tp_bp'].cumsum() at row i
TpbpGroup(rows, i) ==
    SumSeq([j \in 1..i |-> IF rows[j].trip_id = rows[i].trip_id
                           THEN rows[j].tp_bp ELSE 0])

\* groupby(['trip_id', 'tpbp_group'])[col].transform('sum') at row i
TpbpSum(rows, col, i) ==
    SumSkipNa([j \in DOMAIN rows |->
                 IF rows[j].trip_id = rows[i].trip_id
                    /\ TpbpGroup(rows, j) = TpbpGroup(rows, i)
                 THEN rows[j][col] ELSE NA])

\* target[col] = source[src_col]: the cells are matched by index label
AssignAligned(target, col, source, values) ==
    WithColumn(target, col,
        [k \in DOMAIN target.rows |->
            LET found == {i \in DOMAIN source.rows :
                            source.rows[i].index = target.rows[k].index}
            IN  IF found = {} THEN NA ELSE values[Min(found)]])

\* lines 232-244, 268-280: the averages over the service dates of the column
\* col of avl_records, merged into stop_metrics and route_metrics, and the
\* sums per tp_bp group, assigned to tpbp_metrics.  obj has avl_records.
AverageOverDates(obj, col) ==
    LET avl == obj.avl_records
        avg_stop_avl_temp ==
            GroupBy(avl, {"route_id", "trip_id", "stop_pair"}, col, "mean")
        route_avl_temp ==
            GroupBy(GroupBy(avl, {"svc_date", "route_id", "trip_id"}, col, "sum"),
                    {"route_id", "trip_id"}, col, "mean")
    IN  IF ~HasAttr(obj, "stop_metrics")
        THEN [obj |-> obj, err |-> "AttributeError: stop_metrics"]
        ELSE LET merged == SetAttr(obj, "stop_metrics",
                               LeftMerge(obj.stop_metrics, avg_stop_avl_temp,
                                         {"route_id", "trip_id", "stop_pair"}))
             IN  IF ~HasAttr(merged, "route_metrics")
                 THEN [obj |-> merged, err |-> "AttributeError: route_metrics"]
                 ELSE LET routed == SetAttr(merged, "route_metrics",
                                        LeftMerge(merged.route_metrics, route_avl_temp,
                                                  {"route_id", "trip_id"}))
                          temp == routed.stop_metrics.rows
                      IN  IF ~HasAttr(routed, "tpbp_metrics")
                          THEN [obj |-> routed, err |-> "AttributeError: tpbp_metrics"]
                          ELSE [obj |-> SetAttr(routed, "tpbp_metrics",
                                            AssignAligned(routed.tpbp_metrics, col,
                                                routed.stop_metrics,
                                                [i \in DOMAIN temp |->
                                                    TpbpSum(temp, col, i)])),
                                err |-> "none"]

\* lines 228-244
ObservedRunningTime(obj) ==
    IF ~HasAttr(obj, "avl_records")
    THEN [obj |-> obj, err |-> "AttributeError: avl_records"]
    ELSE AverageOverDates(
            SetAttr(obj, "avl_records",
                WithColumn(obj.avl_records, "observed_running_time",
                    [i \in DOMAIN obj.avl_records.rows |->
                        LET r == obj.avl_records.rows[i]
                        IN  MinutesRound2(ClipLower(
                                r.next_stop_arrival_time - r.stop_time - r.dwell_time,
                                0))])),
            "observed_running_time")

\* lines 265-280
ObservedRunningTimeWithDwell(obj) ==
    IF ~HasAttr(obj, "avl_records")
    THEN [obj |-> obj, err |-> "AttributeError: avl_records"]
    ELSE AverageOverDates(
            SetAttr(obj, "avl_records",
                WithColumn(obj.avl_records, "observed_running_time_with_dwell",
                    [i \in DOMAIN obj.avl_records.rows |->
                        LET r == obj.avl_records.rows[i]
                        IN  MinutesRound2(ClipLower(
                                r.next_stop_arrival_time - r.stop_time, 0))])),
            "observed_running_time_with_dwell")

OtpError == "ValueError: no_earlier_than must be negative, no_later_than positive"

\* lines 331-346: the statements after the check of the bounds.  The cell
\* on_time_performance of route_avl_temp is the pair <<on_time_count,
\* total_stops>>, for the percentage 100 * on_time_count / total_stops.
OtpCompute(obj, no_earlier_than, no_later_than) ==
    IF ~HasAttr(obj, "avl_records")
    THEN [obj |-> obj, err |-> "AttributeError: avl_records"]
    ELSE IF ~HasAttr(obj, "stop_metrics")
    THEN [obj |-> obj, err |-> "AttributeError: stop_metrics"]
    ELSE
    LET key == {"route_id", "trip_id", "stop_pair"}
        joined == LeftMerge(obj.avl_records,
                            Project(obj.stop_metrics, key \cup {"arrival_time"}), key)
        stop_avl_temp ==
            WithColumn(joined, "on_time_performance",
                [i \in DOMAIN joined.rows |->
                    IF joined.rows[i].arrival_time = NA THEN NA
                    ELSE joined.rows[i].stop_time - joined.rows[i].arrival_time])
        avg_stop_avl_temp == GroupBy(stop_avl_temp, key, "on_time_performance", "mean")
        merged == SetAttr(obj, "stop_metrics",
                          LeftMerge(obj.stop_metrics, avg_stop_avl_temp, key))
        is_on_time ==
            [i \in DOMAIN stop_avl_temp.rows |->
                LET otp == stop_avl_temp.rows[i].on_time_performance
                IN  IF otp # NA /\ otp > no_earlier_than * 60 /\ otp < no_later_than * 60
                    THEN 1 ELSE 0]
        route_avl_temp ==
            GroupBy(WithColumn(stop_avl_temp, "on_time_performance", is_on_time),
                    {"svc_date", "route_id", "trip_id"}, "on_time_performance",
                    "on_time_of_total")
        avg_route_avl_temp ==
            GroupBy(route_avl_temp, {"route_id", "trip_id"}, "on_time_performance",
                    "percent_mean")
    IN  IF ~HasAttr(merged, "route_metrics")
        THEN [obj |-> merged, err |-> "AttributeError: route_metrics"]
        ELSE [obj |-> SetAttr(merged, "route_metrics",
                          LeftMerge(merged.route_metrics, avg_route_avl_temp,
                                    {"route_id", "trip_id"})),
              err |-> "none"]

\* on_time_performance with the check of the bounds after the writes
OnTimePerformanceChecksLast(obj, no_earlier_than, no_later_than) ==
    LET done == OtpCompute(obj, no_earlier_than, no_later_than)
    IN  IF done.err = "none" /\ (no_earlier_than > 0 \/ no_later_than < 0)
        THEN [obj |-> done.obj, err |-> OtpError]
        ELSE done

\* lines 326-346
OnTimePerformance(obj, no_earlier_than, no_later_than) ==
    IF no_earlier_than > 0 \/ no_later_than < 0
    THEN [obj |-> obj, err |-> OtpError]
    ELSE OtpCompute(obj, no_earlier_than, no_later_than)

-----------------------------------------------------------------------------
(* The GTFS metrics.  Distances of shapes are in metres (thousandths of the *)
(* kilometres of the source), stop spacings in hundredths of a foot,        *)
(* headways in hundredths of a minute.  A stop pair cell without a value is *)
(* <<>>, the label -1 of line 153 is <<-1>>.                                *)

\* line 10, in hundredths of a foot
KILOMETER_TO_FT == 328084

NoPair == <<>>

MinusOne == <<-1>>

\* line 143: (distance * KILOMETER_TO_FT).round(2)
StopSpacingCell(distance) ==
    IF distance = NA THEN NA ELSE RoundHalfEven(distance * KILOMETER_TO_FT, 1000)

\* reset_index().merge(right, on=on, how='left').set_index('index'): the left
\* merge, the rows keeping the labels of the left rows (the cell without a
\* value of a column of stop pairs is NoPair)
LeftMergeKeepIndex(left, right, on) ==
    LET added == right.columns \ on
        Matches(r) == SelectSeq(right.rows, LAMBDA q : SameCells(r, q, on))
        Joined(r) ==
            IF Matches(r) = <<>>
            THEN <<Extend(r, [c \in added |->
                                IF c = "tpbp_stop_pair" THEN NoPair ELSE NA])>>
            ELSE [k \in DOMAIN Matches(r) |->
                    Extend(r, [c \in added |-> Matches(r)[k][c]])]
    IN  [columns |-> left.columns \cup right.columns,
         rows    |-> Flatten([i \in DOMAIN left.rows |-> Joined(left.rows[i])])]

\* lines 152-153: the tpbp_stop_pair of row i before the fill
TpbpStopPairCell(rows, tpbp_metrics, i) ==
    LET found == {k \in DOMAIN tpbp_metrics.rows :
                    tpbp_metrics.rows[k].index = rows[i].index}
    IN  IF found # {} THEN tpbp_metrics.rows[Min(found)].stop_pair
        ELSE IF rows[i].tp_bp = 1 THEN MinusOne
        ELSE NoPair

\* line 154: groupby('trip_id')['tpbp_stop_pair'].fillna(method='ffill')
TpbpStopPair(rows, tpbp_metrics, i) ==
    LET filled == {j \in 1..i : /\ rows[j].trip_id = rows[i].trip_id
                               /\ TpbpStopPairCell(rows, tpbp_metrics, j) # NoPair}
    IN  IF filled = {} THEN NoPair
        ELSE TpbpStopPairCell(rows, tpbp_metrics, Max(filled))

\* line 157: groupby('trip_id')['stop_spacing'].cumsum()
DistanceCumsum(rows, i) ==
    IF rows[i].stop_spacing = NA THEN NA
    ELSE SumSkipNa([j \in 1..i |-> IF rows[j].trip_id = rows[i].trip_id
                                   THEN rows[j].stop_spacing ELSE NA])

\* line 158: the last row of each (trip_id, tpbp_stop_pair)
KeptLastOfPair(rows, tpbp_metrics) ==
    SelectSeq(Positions(rows),
        LAMBDA i : \A j \in (i + 1)..Len(rows) :
            ~(/\ rows[j].trip_id = rows[i].trip_id
              /\ TpbpStopPair(rows, tpbp_metrics, j) = TpbpStopPair(rows, tpbp_metrics, i)))

\* line 160: groupby('trip_id')['distance_cumsum'].diff().fillna(distance_cumsum)
\* at the k-th kept row
TpbpDistance(rows, kept, k) ==
    LET i == kept[k]
        before == {m \in 1..(k - 1) : rows[kept[m]].trip_id = rows[i].trip_id}
        mine == DistanceCumsum(rows, i)
        prev == DistanceCumsum(rows, kept[Max(before)])
    IN  IF before = {} \/ mine = NA THEN mine
        ELSE IF prev = NA THEN mine
        ELSE mine - prev

\* lines 139-165
StopSpacing(obj, shapes) ==
    LET key == {"pattern", "stop_pair"}
        merged == LeftMergeKeepIndex(obj.stop_metrics,
                      DropDuplicates(Project(shapes, key \cup {"distance"})), key)
        spaced == AssignAligned(obj.stop_metrics, "stop_spacing", merged,
                      [i \in DOMAIN merged.rows |->
                          StopSpacingCell(merged.rows[i].distance)])
        with_stops == SetAttr(obj, "stop_metrics", spaced)
    IN  IF ~HasAttr(obj, "ROUTE_METRICS_KEY_COLUMNS")
        THEN [obj |-> with_stops, err |-> "AttributeError: ROUTE_METRICS_KEY_COLUMNS"]
        ELSE IF ~HasAttr(obj, "route_metrics")
        THEN [obj |-> with_stops, err |-> "AttributeError: route_metrics"]
        ELSE
        LET keys == Range(obj.ROUTE_METRICS_KEY_COLUMNS)
            routes_data == GroupBy(spaced, keys, "stop_spacing", "sum")
            with_routes == SetAttr(with_stops, "route_metrics",
                               LeftMerge(obj.route_metrics, routes_data, keys))
            rows == spaced.rows
            kept == KeptLastOfPair(rows, obj.tpbp_metrics)
            distances ==
                DropDuplicates(
                    [columns |-> {"pattern", "stop_pair", "tpbp_stop_pair", "stop_spacing"},
                     rows    |-> [k \in DOMAIN kept |->
                        [index          |-> rows[kept[k]].index,
                         pattern        |-> rows[kept[k]].pattern,
                         stop_pair      |-> TpbpStopPair(rows, obj.tpbp_metrics, kept[k]),
                         tpbp_stop_pair |-> TpbpStopPair(rows, obj.tpbp_metrics, kept[k]),
                         stop_spacing   |-> TpbpDistance(rows, kept, k)]]])
        IN  [obj |-> SetAttr(with_routes, "tpbp_metrics",
                         LeftMergeKeepIndex(obj.tpbp_metrics, distances, key)),
             err |-> "none"]

\* (seconds / 60), in hundredths of a minute: exact for the multiples of 0.6 s
Minutes(seconds) == (seconds * 100) \div 60

\* the headway taken from the first row of the group instead of the preceding
HeadwayFromFirst(rows, i) ==
    LET keys == {"route_id", "direction_id", "pattern", "stop_pair"}
        before == {j \in DOMAIN rows :
                     /\ SameCells(rows[j], rows[i], keys)
                     /\ \/ rows[j].arrival_time < rows[i].arrival_time
                        \/ rows[j].arrival_time = rows[i].arrival_time /\ j < i}
        first == CHOOSE j \in before : \A m \in before :
                     \/ rows[j].arrival_time < rows[m].arrival_time
                     \/ rows[j].arrival_time = rows[m].arrival_time /\ j <= m
    IN  IF before = {} THEN NA
        ELSE Minutes(rows[i].arrival_time - rows[first].arrival_time)

\* lines 173-174 at row i: the rows of the group of row i that the sort puts
\* before it (rows of equal arrival_time stay in their order), and the
\* difference to the last of them
Headway(rows, i) ==
    LET keys == {"route_id", "direction_id", "pattern", "stop_pair"}
        before == {j \in DOMAIN rows :
                     /\ SameCells(rows[j], rows[i], keys)
                     /\ \/ rows[j].arrival_time < rows[i].arrival_time
                        \/ rows[j].arrival_time = rows[i].arrival_time /\ j < i}
        preceding == CHOOSE j \in before : \A m \in before :
                     \/ rows[m].arrival_time < rows[j].arrival_time
                     \/ rows[m].arrival_time = rows[j].arrival_time /\ m <= j
    IN  IF before = {} THEN NA
        ELSE Minutes(rows[i].arrival_time - rows[preceding].arrival_time)

\* lines 173-174
ScheduledHeadway(obj) ==
    [obj |-> SetAttr(obj, "stop_metrics",
                 WithColumn(obj.stop_metrics, "scheduled_headway",
                     [i \in DOMAIN obj.stop_metrics.rows |->
                         Headway(obj.stop_metrics.rows, i)])),
     err |-> "none"]

\* lines 183-191
ScheduledRunningTime(obj) ==
    LET timed == WithColumn(obj.stop_metrics, "scheduled_running_time",
                     [i \in DOMAIN obj.stop_metrics.rows |->
                         LET r == obj.stop_metrics.rows[i]
                         IN  MinutesRound2(r.next_stop_arrival_time - r.departure_time)])
        with_stops == SetAttr(obj, "stop_metrics", timed)
    IN  IF ~HasAttr(obj, "ROUTE_METRICS_KEY_COLUMNS")
        THEN [obj |-> with_stops, err |-> "AttributeError: ROUTE_METRICS_KEY_COLUMNS"]
        ELSE IF ~HasAttr(obj, "route_metrics")
        THEN [obj |-> with_stops, err |-> "AttributeError: route_metrics"]
        ELSE
        LET keys == Range(obj.ROUTE_METRICS_KEY_COLUMNS)
            routes_data == GroupBy(timed, keys, "scheduled_running_time", "sum")
            with_routes == SetAttr(with_stops, "route_metrics",
                               LeftMerge(obj.route_metrics, routes_data, keys))
        IN  [obj |-> SetAttr(with_routes, "tpbp_metrics",
                         AssignAligned(obj.tpbp_metrics, "scheduled_running_time", timed,
                             [i \in DOMAIN timed.rows |->
                                 TpbpSum(timed.rows, "scheduled_running_time", i)])),
             err |-> "none"]

\* lines 301-313.  Boardings are in passengers in stop_metrics and
\* tpbp_metrics (round(0)) and in hundredths of a passenger in route_metrics
\* (round(2)).
Boardings(obj) ==
    IF ~HasAttr(obj, "avl_records")
    THEN [obj |-> obj, err |-> "AttributeError: avl_records"]
    ELSE
    LET avl == obj.avl_records
        avg_stop_avl_temp ==
            GroupBy(WithColumn(avl, "boardings",
                        [i \in DOMAIN avl.rows |-> avl.rows[i].passenger_on]),
                    {"route_id", "trip_id", "stop_pair"}, "boardings", "mean")
        route_avl_temp ==
            GroupBy(WithColumn(avl, "boardings",
                        [i \in DOMAIN avl.rows |-> 100 * avl.rows[i].passenger_on]),
                    {"svc_date", "route_id", "trip_id"}, "boardings", "sum")
        avg_route_avl_temp ==
            GroupBy(route_avl_temp, {"route_id", "trip_id"}, "boardings", "mean")
    IN  IF ~HasAttr(obj, "stop_metrics")
        THEN [obj |-> obj, err |-> "AttributeError: stop_metrics"]
        ELSE LET merged == SetAttr(obj, "stop_metrics",
                               LeftMerge(obj.stop_metrics, avg_stop_avl_temp,
                                         {"route_id", "trip_id", "stop_pair"}))
             IN  IF ~HasAttr(merged, "route_metrics")
                 THEN [obj |-> merged, err |-> "AttributeError: route_metrics"]
                 ELSE LET routed == SetAttr(merged, "route_metrics",
                                        LeftMerge(merged.route_metrics, avg_route_avl_temp,
                                                  {"route_id", "trip_id"}))
                          temp == routed.stop_metrics.rows
                      IN  [obj |-> SetAttr(routed, "tpbp_metrics",
                                       AssignAligned(routed.tpbp_metrics, "boardings",
                                           routed.stop_metrics,
                                           [i \in DOMAIN temp |->
                                               TpbpSum(temp, "boardings", i)])),
                           err |-> "none"]

-----------------------------------------------------------------------------
(* Inputs of Metric_Calculation *)

MetricSeqs == {<<1, 2>>, <<1, 2, 3>>, <<1, 2, 1, 2>>}

\* the rows of trip t: stops 120 s apart from the start time, 30 s at each
\* stop; the ends of a trip are tp_bp, stop 2 is if tp is 1, and every visit
\* of the first and of the last stop of the trip is if tp is 2
GtfsTripRows(t, seq, start, tp) ==
    [i \in DOMAIN seq |->
        [route_id |-> 1, direction_id |-> 0, pattern |-> Len(seq), trip_id |-> t,
         service_id |-> 1, stop_id |-> seq[i], stop_sequence |-> i,
         arrival_time |-> start + 120 * (i - 1),
         departure_time |-> start + 120 * (i - 1) + 30,
         timepoint |-> IF seq[i] = 2 /\ tp = 1 THEN 1 ELSE 0,
         tp_bp |-> IF \/ i \in {1, Len(seq)}
                      \/ seq[i] = 2 /\ tp = 1
                      \/ seq[i] \in {seq[1], seq[Len(seq)]} /\ tp = 2
                   THEN 1 ELSE 0,
         trip_start_time |-> start,
         trip_end_time |-> start + 120 * (Len(seq) - 1)]]

Labelled(rows) == [i \in DOMAIN rows |-> Extend(rows[i], [index |-> i])]

GtfsRecordsTable(seqs, starts, tp) ==
    [columns |-> {"route_id", "direction_id", "pattern", "trip_id", "service_id",
                  "stop_id", "stop_sequence", "arrival_time", "departure_time",
                  "timepoint", "tp_bp", "trip_start_time", "trip_end_time"},
     rows    |-> Labelled(Flatten([t \in DOMAIN seqs |->
                                     GtfsTripRows(t, seqs[t], starts[t], tp)]))]

\* how late a bus is at stop i on date d, by rule: on time, later by the
\* date, or late and early in turn by more than the time between two stops
Delay(rule, d, i) ==
    CASE rule = 0 -> 0
      [] rule = 1 -> 60 * d
      [] OTHER -> IF i % 2 = 1 THEN 300 ELSE -300

AvlTripRows(d, t, seq, start, rule, dwell) ==
    [i \in DOMAIN seq |->
        [svc_date |-> d, route |-> 1, trip_id |-> t, stop_id |-> seq[i],
         stop_sequence |-> i,
         stop_time |-> start + 120 * (i - 1) + Delay(rule, d, i),
         dwell_time |-> dwell,
         passenger_on |-> (i + d + t) % 4]]

\* AVL records of the trips on the dates 1..dates
AvlRecordsTable(seqs, starts, dates, rule, dwell) ==
    [columns |-> {"svc_date", "route", "trip_id", "stop_id", "stop_sequence",
                  "stop_time", "dwell_time", "passenger_on"},
     rows    |-> Labelled(Flatten([d \in 1..dates |->
                    Flatten([t \in DOMAIN seqs |->
                        AvlTripRows(d, t, seqs[t], starts[t], rule, dwell)])]))]

\* shapes: the distance of every stop pair of every pattern
ShapesTable(seqs) ==
    LET pairs == UNION {{<<Len(seqs[t]), <<seqs[t][i], seqs[t][i + 1]>>>> :
                            i \in 1..(Len(seqs[t]) - 1)} : t \in DOMAIN seqs}
        one == CHOOSE f \in [1..Cardinality(pairs) -> pairs] :
                    \A p \in pairs : \E k \in DOMAIN f : f[k] = p
    IN  [columns |-> {"pattern", "stop_pair", "distance"},
         rows    |-> [k \in DOMAIN one |->
                        [index |-> k, pattern |-> one[k][1],
                         stop_pair |-> one[k][2],
                         distance |-> 100 * (2 * one[k][2][1] + one[k][2][2])]]]

\* the arguments of the constructor; avl_records may be None
MetricArgs(N) ==
    UNION {{[shapes       |-> ShapesTable(seqs),
             gtfs_records |-> GtfsRecordsTable(seqs, starts, tp),
             avl_records  |-> AvlRecordsTable(seqs, starts, dates, rule, dwell),
             avl_is_none  |-> none,
             data_option  |-> opt] :
                seqs \in [1..n -> MetricSeqs], starts \in [1..n -> {0, 600}],
                tp \in 0..1, dates \in 1..2, rule \in 0..2, dwell \in {0, 200},
                none \in BOOLEAN, opt \in {{"GTFS"}, {"GTFS", "AVL"}}} :
           n \in 1..N}

-----------------------------------------------------------------------------
(* Metric_Calculation.__init__ as a state machine.  Line 46 reads           *)
(* self.gtfs_stop_metrics, which no statement of the class assigns, so no   *)
(* run of the constructor gets past it.                                     *)

\* the variables of the GTFS object while no GTFS object is constructed
GtfsIdle ==
    /\ feed = MkFeed(<<>>, <<>>, NoCols, EmptyMap, TRUE)
    /\ records = <<>>
    /\ timepoint = <<>>
    /\ branchpoint = <<>>
    /\ tp_bp = <<>>
    /\ pattern = <<>>
    /\ patterns_dict = EmptyMap
    /\ shape_used = EmptyMap
    /\ match_index = EmptyMap
    /\ env = NoEnv
    /\ service_id_list = {}
    /\ ptg_feed = NotLoaded
    /\ raw_data = EmptyMap
    /\ validated_data = EmptyMap

InitMetric ==
    /\ MainIdle
    /\ margs \in MetricArgs(MaxMetricTrips)
    /\ mc = EmptyMap
    /\ pc = "prepare_stop_event_records"
    /\ err = "none"
    /\ GtfsIdle

\* lines 40-42; line 42 passes the new frame that .loc returns
PrepareMetricsStep ==
    /\ pc = "prepare_stop_event_records"
    /\ mc' = PrepareMetrics(mc, margs.gtfs_records)
    /\ margs' = [margs EXCEPT !.gtfs_records = ArgumentAfterPrepare(@, "GTFS")]
    /\ pc' = "gtfs_route_metrics"
    /\ UNCHANGED <<err, gtfsVars, loadVars>>
    /\ UNCHANGED <<tpbp_dict, mainVars>>

\* lines 44-49
GtfsRouteMetricsStep ==
    /\ pc = "gtfs_route_metrics"
    /\ LET keyed == SetAttr(mc, "GTFS_ROUTE_METRICS_KEY_COLUMNS",
                            GTFS_ROUTE_METRICS_KEY_COLUMNS)
       IN  IF HasAttr(keyed, "gtfs_stop_metrics")
           THEN /\ mc' = SetAttr(keyed, "gtfs_route_metrics",
                                 GtfsRouteMetrics(keyed.gtfs_stop_metrics,
                                                  GTFS_ROUTE_METRICS_KEY_COLUMNS))
                /\ pc' = "data_option"
                /\ err' = err
           ELSE /\ mc' = keyed
                /\ pc' = "failed"
                /\ err' = "AttributeError: gtfs_stop_metrics"
    /\ UNCHANGED <<margs, gtfsVars, loadVars>>
    /\ UNCHANGED <<tpbp_dict, mainVars>>

NextMetric ==
    \/ PrepareMetricsStep
    \/ GtfsRouteMetricsStep

SpecMetric == InitMetric /\ [][NextMetric]_vars

-----------------------------------------------------------------------------
(* The metric methods called on a Metric_Calculation object.  The methods   *)
(* read self.avl_records and self.route_metrics, which the constructor does *)
(* not assign: the objects are those with and without these attributes,     *)
(* route_metrics as __prepare_route_metrics builds it and avl_records as    *)
(* __prepare_stop_event_records prepares the AVL records.                   *)

\* lines 129-131
PrepareRouteMetrics(recs, key_columns) ==
    DropDuplicates(Project(recs,
        Range(key_columns) \cup {"trip_start_time", "trip_end_time"}))

MetricObject(args, has) ==
    LET base == PrepareMetrics(EmptyMap, args.gtfs_records)
    IN  [a \in DOMAIN base \cup has |->
            CASE a = "route_metrics" ->
                    PrepareRouteMetrics(base.stop_metrics, GTFS_ROUTE_METRICS_KEY_COLUMNS)
              [] a = "avl_records" ->
                    PrepareStopEventRecords(args.avl_records, "AVL")
              [] a = "ROUTE_METRICS_KEY_COLUMNS" -> GTFS_ROUTE_METRICS_KEY_COLUMNS
              [] OTHER -> base[a]]

MetricObjects(N) ==
    {MetricObject(args, has) :
        args \in MetricArgs(N), has \in SUBSET {"route_metrics", "avl_records"}}

NoCall == [method |-> "none", no_earlier_than |-> 0, no_later_than |-> 0]

\* the call of a method without arguments: what else the caller holds stays
CallOf(call, method) == Extend(call, [method |-> method])

InitMethod ==
    /\ MainIdle
    /\ mc \in MetricObjects(MaxMethodTrips)
    /\ margs = NoCall
    /\ pc = "call"
    /\ err = "none"
    /\ GtfsIdle

\* the call ends: the object as the method leaves it, and what it raised
MethodEnds(result, call) ==
    /\ mc' = result.obj
    /\ err' = result.err
    /\ pc' = IF result.err = "none" THEN "returned" ELSE "raised"
    /\ margs' = call
    /\ UNCHANGED <<gtfsVars, loadVars>>
    /\ UNCHANGED <<tpbp_dict, mainVars>>

ObservedRunningTimeCall ==
    /\ pc = "call"
    /\ MethodEnds(ObservedRunningTime(mc),
                  CallOf(margs, "observed_running_time"))

ObservedRunningTimeWithDwellCall ==
    /\ pc = "call"
    /\ MethodEnds(ObservedRunningTimeWithDwell(mc),
                  CallOf(margs, "observed_running_time_with_dwell"))

\* the bounds a caller may pass; the defaults are -1 and 5
OnTimePerformanceCall ==
    /\ pc = "call"
    /\ \E no_earlier_than \in {-1, 0, 2}, no_later_than \in {-1, 0, 5} :
            MethodEnds(OnTimePerformance(mc, no_earlier_than, no_later_than),
                       [method |-> "on_time_performance",
                        no_earlier_than |-> no_earlier_than,
                        no_later_than |-> no_later_than])

NextMethod ==
    \/ ObservedRunningTimeCall
    \/ ObservedRunningTimeWithDwellCall
    \/ OnTimePerformanceCall

SpecMethod == InitMethod /\ [][NextMethod]_vars

-----------------------------------------------------------------------------
(* The metrics of tables of several trips: the methods that fill the GTFS   *)
(* metrics and those that assign a column of tpbp_metrics, called on an     *)
(* object with or without route_metrics, ROUTE_METRICS_KEY_COLUMNS (the key *)
(* columns of the constructor) and avl_records.                             *)

\* the arguments: tables of up to N trips, AVL records of two service dates
ScheduleArgs(N) ==
    UNION {{[shapes       |-> ShapesTable(seqs),
             gtfs_records |-> GtfsRecordsTable(seqs, starts, tp),
             avl_records  |-> AvlRecordsTable(seqs, starts, 2, 2, 0),
             avl_is_none  |-> FALSE,
             data_option  |-> {"GTFS", "AVL"}] :
                seqs \in [1..n -> MetricSeqs], starts \in [1..n -> {0, 600}],
                tp \in 0..2} :
           n \in 1..N}

\* the tables passed to the constructor, which the caller still holds
PassedTables == {"shapes", "gtfs_records", "avl_records"}

InitSchedule ==
    /\ MainIdle
    /\ \E args \in ScheduleArgs(MaxScheduleTrips),
          has \in SUBSET {"route_metrics", "ROUTE_METRICS_KEY_COLUMNS", "avl_records"} :
            /\ mc = MetricObject(args, has)
            /\ margs = Extend(NoCall, [t \in PassedTables |-> args[t]])
    /\ pc = "call"
    /\ err = "none"
    /\ GtfsIdle

\* lines 139-141 read shapes through shapes[[...]], a new frame; no
\* statement of the method assigns to shapes
StopSpacingCall ==
    /\ pc = "call"
    /\ "shapes" \in DOMAIN margs
    /\ MethodEnds(StopSpacing(mc, margs.shapes), CallOf(margs, "stop_spacing"))

ScheduledHeadwayCall ==
    /\ pc = "call"
    /\ MethodEnds(ScheduledHeadway(mc), CallOf(margs, "scheduled_headway"))

ScheduledRunningTimeCall ==
    /\ pc = "call"
    /\ MethodEnds(ScheduledRunningTime(mc),
                  CallOf(margs, "scheduled_running_time"))

BoardingsCall ==
    /\ pc = "call"
    /\ MethodEnds(Boardings(mc), CallOf(margs, "boardings"))

NextSchedule ==
    \/ StopSpacingCall
    \/ ScheduledHeadwayCall
    \/ ScheduledRunningTimeCall
    \/ ObservedRunningTimeCall
    \/ ObservedRunningTimeWithDwellCall
    \/ BoardingsCall

SpecSchedule == InitSchedule /\ [][NextSchedule]_vars

-----------------------------------------------------------------------------
(* The operations that are handed tables: the constructor of                *)
(* Metric_Calculation, its methods, and the loading and validation of the   *)
(* GTFS tables.                                                             *)

\* the constructor, called with the tables of InitSchedule
InitConstruct ==
    /\ MainIdle
    /\ margs \in ScheduleArgs(MaxScheduleTrips)
    /\ mc = EmptyMap
    /\ pc = "prepare_stop_event_records"
    /\ err = "none"
    /\ GtfsIdle

InitInputs == InitConstruct \/ InitSchedule \/ InitLoad

NextInputs == NextMetric \/ NextSchedule \/ NextLoad

SpecInputs == InitInputs /\ [][NextInputs]_vars

-----------------------------------------------------------------------------
(* backend_main.__main__: the stages of a run, one action each.  The        *)
(* switches (AGENCY, DATA_GENERATION, ...) are fixed for a run.  The work   *)
(* of a stage is done by classes outside this file; what the driver sees of *)
(* a stage is whether it returns or raises, which local names are bound     *)
(* afterwards and which output files have been written.                     *)

SUPPORTED_AGENCIES == {"CTA", "MBTA", "WMATA"}

SECONDS_IN_MINUTE == 60
SECONDS_IN_HOUR == 3600
SECONDS_IN_TEN_MINUTES == SECONDS_IN_MINUTE * 10

\* line 154
interval_to_second(x) == x[1] * SECONDS_IN_HOUR + x[2] * SECONDS_IN_MINUTE

\* line 155
second_to_interval(x) ==
    <<x \div SECONDS_IN_HOUR, (x % SECONDS_IN_HOUR) \div SECONDS_IN_MINUTE>>

\* np.arange(start, stop, step) for integers and step > 0
Arange(start, stop, step) ==
    IF stop <= start THEN <<>>
    ELSE [k \in 1..((stop - start + step - 1) \div step) |-> start + (k - 1) * step]

\* (mutation: the end of an interval is not cut at the end of the day)
IntervalEndUncut(day_end_sec, interval_start_second) ==
    interval_start_second + SECONDS_IN_TEN_MINUTES

\* line 164
IntervalEnd(day_end_sec, interval_start_second) ==
    Min({day_end_sec, interval_start_second + SECONDS_IN_TEN_MINUTES})

\* lines 157-165
AllTenMinIntervals(day_start, day_end) ==
    LET day_start_sec == interval_to_second(day_start)
        day_end_sec == interval_to_second(day_end)
        starts == Arange(day_start_sec, day_end_sec, SECONDS_IN_TEN_MINUTES)
    IN  [k \in DOMAIN starts |->
            <<second_to_interval(starts[k]),
              second_to_interval(IntervalEnd(day_end_sec, starts[k]))>>]

\* the [hour, minute] pairs a config may give
DayTimes == {<<h, m>> : h \in 0..MaxHour, m \in {0, 7, 10, 59}}

Mains ==
    [AGENCY : {"MBTA", "XYZ"}, DATA_GENERATION : BOOLEAN, SHAPE_GENERATION : BOOLEAN,
     AVL_GENERATION : BOOLEAN, METRIC_AGGREGATION_FULL : BOOLEAN,
     METRIC_AGGREGATION_10_MIN : BOOLEAN]

InitMain ==
    /\ main \in Mains
    /\ pc = "check_agency"
    /\ err = "none"
    /\ bound = {}
    /\ files = {}
    /\ stages = <<>>
    /\ time_period_full = <<>>
    /\ all_10_min_intervals = <<>>
    /\ tpbp_dict = <<>>
    /\ margs = EmptyMap
    /\ mc = EmptyMap
    /\ GtfsIdle

\* a stage raises: the run ends, with the files written so far left in place
Raises(e, written) ==
    /\ pc' = "failed"
    /\ err' = e
    /\ files' = files \cup written
    /\ bound' = bound

\* a stage returns
Returns(next, names, written) ==
    /\ pc' = next
    /\ err' = err
    /\ files' = files \cup written
    /\ bound' = bound \cup names

\* lines 37-47
CheckAgencyStep ==
    /\ pc = "check_agency"
    /\ IF main.AGENCY \notin SUPPORTED_AGENCIES
       THEN /\ pc' = "quit"
            /\ err' = "SystemExit: agency not supported"
            /\ UNCHANGED <<bound, files>>
       ELSE Returns("data_generation", {"params"}, {})
    /\ UNCHANGED <<main, stages, time_period_full, all_10_min_intervals>>
    /\ UNCHANGED <<gtfsVars, loadVars, metricVars, tpbp_dict>>

\* where the GTFS constructor can end: in load_data (C13), in
\* generate_patterns (C3), in generate_stop_name_output after
\* generate_timepoints_output has written its file, or at its last line
GtfsEnds == {"load_data", "generate_patterns", "generate_stop_name_output", "none"}

\* lines 50-71
DataGenerationStep ==
    /\ pc = "data_generation"
    /\ IF main.DATA_GENERATION
       THEN /\ stages' = Append(stages, "data_generation")
            /\ \E e \in GtfsEnds :
                  CASE e = "none" ->
                          Returns("shape_generation", {"bus_gtfs", "gtfs_records"},
                                  {"timepoints.json", "stop_name_lookup.json",
                                   "gtfs_records.csv"})
                    [] e = "generate_stop_name_output" ->
                          Raises("GTFS: generate_stop_name_output", {"timepoints.json"})
                    [] OTHER -> Raises("GTFS: " \o e, {})
       ELSE /\ stages' = stages
            /\ \E found \in BOOLEAN :
                  IF found THEN Returns("shape_generation", {"gtfs_records"}, {})
                  ELSE Raises("FileNotFoundError: gtfs_records.csv", {})
    /\ UNCHANGED <<main, time_period_full, all_10_min_intervals>>
    /\ UNCHANGED <<gtfsVars, loadVars, metricVars, tpbp_dict>>

\* lines 76-80: bus_gtfs is bound only by line 52
ShapeGenerationStep ==
    /\ pc = "shape_generation"
    /\ \E shapes_file_empty \in BOOLEAN :
          IF main.SHAPE_GENERATION \/ shapes_file_empty
          THEN /\ stages' = Append(stages, "shape_generation")
               /\ IF "bus_gtfs" \notin bound
                  THEN Raises("UnboundLocalError: bus_gtfs", {})
                  ELSE \E done \in BOOLEAN :
                          IF done THEN Returns("avl_generation", {"shapes"}, {})
                          ELSE Raises("BaseShape", {})
          ELSE /\ stages' = stages
               /\ Returns("avl_generation", {"shapes"}, {})
    /\ UNCHANGED <<main, time_period_full, all_10_min_intervals>>
    /\ UNCHANGED <<gtfsVars, loadVars, metricVars, tpbp_dict>>

\* lines 84-105
AvlGenerationStep ==
    /\ pc = "avl_generation"
    /\ IF main.AVL_GENERATION
       THEN /\ stages' = Append(stages, "avl_generation")
            /\ \E done \in BOOLEAN :
                  IF done THEN Returns("metric_calculation", {"avl", "avl_records"},
                                       {"avl_records.csv"})
                  ELSE Raises("MBTA_AVL", {})
       ELSE /\ stages' = stages
            /\ \E found \in BOOLEAN :
                  IF found THEN Returns("metric_calculation", {"avl_records"}, {})
                  ELSE Raises("FileNotFoundError: avl_records.csv", {})
    /\ UNCHANGED <<main, time_period_full, all_10_min_intervals>>
    /\ UNCHANGED <<gtfsVars, loadVars, metricVars, tpbp_dict>>

\* line 108
MetricCalculationStep ==
    /\ pc = "metric_calculation"
    /\ stages' = Append(stages, "metric_calculation")
    /\ \E done \in BOOLEAN :
          IF done THEN Returns("aggregation_full", {"metrics"}, {})
          ELSE Raises("MetricCalculation", {})
    /\ UNCHANGED <<main, time_period_full, all_10_min_intervals>>
    /\ UNCHANGED <<gtfsVars, loadVars, metricVars, tpbp_dict>>

\* lines 127-145
AggregationFullStep ==
    /\ pc = "aggregation_full"
    /\ IF main.METRIC_AGGREGATION_FULL
       THEN /\ stages' = Append(stages, "aggregation_full")
            /\ \E done \in BOOLEAN :
                  IF done THEN Returns("aggregation_10_min", {"agg_metrics"},
                                       {"metric_calculation_aggre"})
                  ELSE Raises("MetricAggregation", {})
       ELSE /\ stages' = stages
            /\ Returns("aggregation_10_min", {}, {})
    /\ UNCHANGED <<main, time_period_full, all_10_min_intervals>>
    /\ UNCHANGED <<gtfsVars, loadVars, metricVars, tpbp_dict>>

\* lines 148-186: the interval list is built before the first aggregation
Aggregation10MinStep ==
    /\ pc = "aggregation_10_min"
    /\ IF main.METRIC_AGGREGATION_10_MIN
       THEN \E day_start \in DayTimes, day_end \in DayTimes :
              /\ stages' = Append(stages, "aggregation_10_min")
              /\ time_period_full' = <<day_start, day_end>>
              /\ all_10_min_intervals' = AllTenMinIntervals(day_start, day_end)
              /\ \E done \in BOOLEAN :
                    IF done \/ all_10_min_intervals' = <<>>
                    THEN Returns("completed", {"agg_metrics_10_min"},
                                 {"metric_calculation_aggre_10min"})
                    ELSE Raises("MetricAggregation", {})
       ELSE /\ UNCHANGED <<stages, time_period_full, all_10_min_intervals>>
            /\ Returns("completed", {}, {})
    /\ main' = main
    /\ UNCHANGED <<gtfsVars, loadVars, metricVars, tpbp_dict>>

NextMain ==
    \/ CheckAgencyStep
    \/ DataGenerationStep
    \/ ShapeGenerationStep
    \/ AvlGenerationStep
    \/ MetricCalculationStep
    \/ AggregationFullStep
    \/ Aggregation10MinStep

SpecMain == InitMain /\ [][NextMain]_vars

-----------------------------------------------------------------------------
(* Properties *)

AfterBranchpoints == tp_bp # <<>>

AfterPatterns == pattern # <<>>

\* the stop_id list of the trip of row i
SeqOfRow(i) == feed.stop_times[records[i].trip_id]

SameRouteDirRows(i, j) ==
    /\ records[i].route_id = records[j].route_id
    /\ records[i].direction_id = records[j].direction_id

\* C1: after generate_patterns, two trips of the same route_id and direction_id
\* carry the same pattern identifier iff their ordered stop_id sequences are
\* identical.
C1_SamePatternIffSameSequence ==
    AfterPatterns =>
        \A i, j \in DOMAIN records :
            SameRouteDirRows(i, j) =>
                ((pattern[i] = pattern[j]) <=> (SeqOfRow(i) = SeqOfRow(j)))

\* first row, in the sorted records, of the stop sequence of row i within its
\* (route_id, direction_id)
FirstSeen(i) ==
    Min({j \in DOMAIN records : SameRouteDirRows(i, j) /\ SeqOfRow(j) = SeqOfRow(i)})

\* rank by first appearance of the stop sequence of row i
Ordinal(i) ==
    Cardinality({FirstSeen(j) : j \in {k \in DOMAIN records :
                    SameRouteDirRows(i, k) /\ FirstSeen(k) <= FirstSeen(i)}})

\* C2: per (route_id, direction_id) with k distinct stop sequences the ordinals
\* are exactly 1..k, the ordinal of a sequence is its rank by first appearance
\* in the sorted records, and every row of a trip carries the pattern
\* route_id-direction_id-ordinal of that trip's sequence.
C2_OrdinalByFirstAppearance ==
    AfterPatterns =>
        \A i \in DOMAIN records :
            /\ pattern[i] = <<records[i].route_id, records[i].direction_id, Ordinal(i)>>
            /\ {pattern[j][3] : j \in {k \in DOMAIN records : SameRouteDirRows(i, k)}}
                 = 1..Cardinality({SeqOfRow(j) : j \in {k \in DOMAIN records :
                                                        SameRouteDirRows(i, k)}})

DistinctHashes == {GetHashOfStopList(feed.stop_times[t]) : t \in DOMAIN feed.trips}

DistinctSequences == {feed.stop_times[t] : t \in DOMAIN feed.trips}

HashError == err = "ValueError: unique hashes"

\* C3: generate_patterns fails, with no pattern dictionary and no pattern
\* column, whenever the number of distinct hashes differs from the number of
\* distinct stop sequences, and does not fail for that reason when they agree.
C3_FailsIffHashCountsDiffer ==
    /\ HashError =>
          /\ Cardinality(DistinctHashes) # Cardinality(DistinctSequences)
          /\ pc = "failed" /\ pattern = <<>> /\ patterns_dict = EmptyMap
    /\ pc \in {"improve_pattern_with_shapes", "outputs", "constructed"} =>
          /\ Cardinality(DistinctHashes) = Cardinality(DistinctSequences)
          /\ AfterPatterns /\ DOMAIN patterns_dict # {}

C3_Witness == HashError /\ pc = "failed"

IsFirstOfTrip(i) ==
    \A j \in DOMAIN records :
        records[j].trip_id = records[i].trip_id
            => records[i].stop_sequence <= records[j].stop_sequence

IsLastOfTrip(i) ==
    \A j \in DOMAIN records :
        records[j].trip_id = records[i].trip_id
            => records[j].stop_sequence <= records[i].stop_sequence

\* C4: after add_branchpoints the first and the last stop event of every trip
\* have tp_bp = 1, whatever their timepoint and branchpoint values.
C4_TripEndsAreTpBp ==
    AfterBranchpoints =>
        \A i \in DOMAIN records : (IsFirstOfTrip(i) \/ IsLastOfTrip(i)) => tp_bp[i] = 1

C4_Witness ==
    /\ AfterBranchpoints
    /\ \E i, j \in DOMAIN records :
          /\ IsFirstOfTrip(i) /\ timepoint[i] = 0 /\ branchpoint[i] = 0
          /\ IsLastOfTrip(j) /\ timepoint[j] = 0 /\ branchpoint[j] = 0
          /\ i # j

SameRouteStopRows(i, j) ==
    /\ records[i].route_id = records[j].route_id
    /\ records[i].stop_id = records[j].stop_id

\* tp_bp of row j before the normalization: timepoint, branchpoint, or an end
\* of its trip
RawTpBp(j) ==
    timepoint[j] = 1 \/ branchpoint[j] = 1 \/ IsFirstOfTrip(j) \/ IsLastOfTrip(j)

\* C5: after add_branchpoints all rows of one (route_id, stop_id) have the same
\* tp_bp, which is 1 exactly when one of them had tp_bp = 1 before the
\* normalization.
C5_TpBpPerRouteStop ==
    AfterBranchpoints =>
        \A i \in DOMAIN records :
            /\ tp_bp[i] \in {0, 1}
            /\ \A j \in DOMAIN records : SameRouteStopRows(i, j) => tp_bp[i] = tp_bp[j]
            /\ tp_bp[i] = 1 <=> \E j \in DOMAIN records : SameRouteStopRows(i, j) /\ RawTpBp(j)

C5_Witness ==
    /\ AfterBranchpoints
    /\ \E i, j \in DOMAIN records :
          SameRouteStopRows(i, j) /\ RawTpBp(i) /\ ~RawTpBp(j) /\ tp_bp[j] = 1
    /\ \E i \in DOMAIN records : tp_bp[i] = 0

\* R(x): the route_ids that visit stop x anywhere
R(x) == {records[j].route_id : j \in {k \in DOMAIN records : records[k].stop_id = x}}

HasNeighbour(i, d) ==
    \E j \in DOMAIN records :
        /\ records[j].trip_id = records[i].trip_id
        /\ records[j].stop_sequence = records[i].stop_sequence + d

Neighbour(i, d) ==
    CHOOSE j \in DOMAIN records :
        /\ records[j].trip_id = records[i].trip_id
        /\ records[j].stop_sequence = records[i].stop_sequence + d

\* R(s) \ R(neighbour), empty when the neighbour is missing
Delta(i, d) ==
    IF HasNeighbour(i, d)
    THEN R(records[i].stop_id) \ R(records[Neighbour(i, d)].stop_id)
    ELSE {}

\* C6: branchpoint(s) = 1 iff |Dnext| + |Dprev| > 0 and not (Dprev = Dnext and
\* |Dprev| > 0), a difference with a missing neighbour being empty and never
\* equal to the other; 0 otherwise.
C6_BranchpointFormula ==
    branchpoint # <<>> =>
        \A i \in DOMAIN records :
            /\ branchpoint[i] \in {0, 1}
            /\ branchpoint[i] = 1 <=>
                  /\ Cardinality(Delta(i, 1)) + Cardinality(Delta(i, -1)) > 0
                  /\ ~(/\ HasNeighbour(i, 1) /\ HasNeighbour(i, -1)
                       /\ Delta(i, -1) = Delta(i, 1)
                       /\ Cardinality(Delta(i, -1)) > 0)

C6_Witness ==
    /\ branchpoint # <<>>
    /\ \E i \in DOMAIN records :
          /\ HasNeighbour(i, 1) /\ HasNeighbour(i, -1)
          /\ Delta(i, -1) = Delta(i, 1) /\ Delta(i, 1) # {}
          /\ branchpoint[i] = 0
    /\ \E i \in DOMAIN records : branchpoint[i] = 1 /\ ~HasNeighbour(i, 1)
    /\ \E i \in DOMAIN records :
          branchpoint[i] = 1 /\ HasNeighbour(i, 1) /\ HasNeighbour(i, -1)

\* branchpoint of the stop event of a route at a stop (scenario feeds: one trip
\* per route, no stop twice)
BranchpointAt(route, stop) ==
    branchpoint[CHOOSE i \in DOMAIN records :
                    records[i].route_id = route /\ records[i].stop_id = stop]

\* C7 (as stated): with R1 visiting [A,B,C,D] and R2 visiting [A,B,E,D], R1's
\* trip has branchpoint 1 at B, 1 at C and 0 at A.
C7_ScenarioAsStated ==
    branchpoint # <<>> =>
        BranchpointAt(1, 2) = 1 /\ BranchpointAt(1, 3) = 1 /\ BranchpointAt(1, 1) = 0

\* C7 (amended): with R1 visiting [A,B,C,D] and R2 visiting [A,B,E,D], R1's
\* trip has branchpoint 1 at B, 0 at C, 0 at A, and 1 at D.
C7_ScenarioAmended ==
    branchpoint # <<>> =>
        /\ BranchpointAt(1, 2) = 1 /\ BranchpointAt(1, 3) = 0
        /\ BranchpointAt(1, 1) = 0 /\ BranchpointAt(1, 4) = 1

C7_Witness ==
    /\ branchpoint # <<>>
    /\ feed.stop_times = <<<<1, 2, 3, 4>>, <<1, 2, 5, 4>>>>
    /\ feed.trips[1].route_id = 1 /\ feed.trips[2].route_id = 2
    /\ BranchpointAt(1, 3) = 0

PastTimepointCheck ==
    pc \in {"add_branchpoints", "generate_patterns", "improve_pattern_with_shapes",
           "outputs", "constructed"}

\* C8: with none of the columns timepoint, timepoints, checkpoint every row
\* gets timepoint = 1; with one of them present the timepoint column equals
\* that source column; processing continues to branchpoint detection only if
\* every timepoint value is 0 or 1.
C8_TimepointColumn ==
    timepoint # <<>> =>
        /\ feed.tpcols = {} => \A i \in DOMAIN records : timepoint[i] = 1
        /\ \A c \in TIMEPOINT_COLS_CANDIDATE :
              feed.tpcols = {c} =>
                  \A i \in DOMAIN records :
                      timepoint[i] =
                          feed.tpval[c][records[i].trip_id][records[i].stop_sequence]
        /\ feed.tpcols # {} =>
              \E c \in feed.tpcols :
                  \A i \in DOMAIN records :
                      timepoint[i] =
                          feed.tpval[c][records[i].trip_id][records[i].stop_sequence]
        /\ PastTimepointCheck => \A i \in DOMAIN records : timepoint[i] \in {0, 1}
        /\ (\A i \in DOMAIN records : timepoint[i] \in {0, 1})
              => err # "timepoint not 0or1"

C8_Witness ==
    /\ PastTimepointCheck
    /\ feed.tpcols = {"checkpoint"}
    /\ \E i, j \in DOMAIN records : timepoint[i] = 0 /\ timepoint[j] = 1

RECURSIVE ConsecutivePairs(_)
ConsecutivePairs(x) ==
    IF Len(x) < 2 THEN <<>> ELSE <<<<x[1], x[2]>>>> \o ConsecutivePairs(Tail(x))

\* C9: the ordered segment keys of a pattern are exactly the consecutive pairs
\* of the stop_id sequence of the trips assigned to it (n stops, n-1 segments),
\* also when a stop or a consecutive pair occurs more than once.
C9_SegmentsAreConsecutivePairs ==
    AfterPatterns =>
        \A i \in DOMAIN records :
            DictKeys(patterns_dict[pattern[i]]) = ConsecutivePairs(SeqOfRow(i))

\* trips assigned to pattern p
TripsOfPattern(p) == {records[i].trip_id : i \in {k \in DOMAIN records : pattern[k] = p}}

\* C10: with a shapes table, a pattern is enriched from a shape polyline
\* whenever one of its trips has a shape_id present in the shapes table,
\* whichever trip comes first.
C10_EnrichedIfAnyTripHasShape ==
    (pc = "outputs" /\ DOMAIN feed.shapes # {} /\ feed.shape_gen) =>
        \A p \in DOMAIN patterns_dict :
            (\E t \in TripsOfPattern(p) : feed.trips[t].shape_id \in DOMAIN feed.shapes)
                => shape_used[p] \in DOMAIN feed.shapes

\* C11: in positions of the whole shape polyline, the start index matched for
\* every segment after the first equals the end index matched for the segment
\* before it, and the matched end indices never decrease along the pattern.
C11_MatchStartsAtPreviousEnd ==
    pc = "outputs" =>
        \A p \in DOMAIN match_index :
            \A k \in 2..Len(match_index[p]) :
                /\ match_index[p][k].first = match_index[p][k - 1].last
                /\ match_index[p][k].last >= match_index[p][k - 1].last

\* the run's date list and the calendar of the feed have no date in common
NoServiceDate == env.date_list \cap DOMAIN env.calendar.ids = {}

\* C12: when none of the run's service dates is in the GTFS calendar,
\* load_data fails with the missing-service-dates error and loads no feed.
C12_FailsWithoutServiceDates ==
    (NoServiceDate /\ pc # "read_service_ids") =>
        (err = "SystemExit: service ids not found" /\ ~ptg_feed.loaded)

\* a required table that the feed does not have, that is empty or that lacks
\* a column of its schema
BadRequiredTable(n) ==
    \/ n \notin DOMAIN ptg_feed.tables
    \/ ptg_feed.tables[n].rows = <<>>
    \/ \E c \in DOMAIN REQUIRED_DATA_SPEC[n] : c \notin ptg_feed.tables[n].columns

LoadDataReturned == pc \in {"validate_data", "validated"}

LoadDataOver == pc \in {"validate_data", "validated", "failed"} /\ ptg_feed.loaded

\* C13: load_data ends with an error or returns all four required tables,
\* each with rows and with every column of its schema; a missing or empty
\* required table and a missing required column each end it with an error.
C13_RequiredTablesOrFailure ==
    /\ (LoadDataOver /\ err = "none") =>
            \A n \in Range(RequiredTables) :
                /\ n \in DOMAIN raw_data
                /\ raw_data[n].rows # <<>>
                /\ DOMAIN REQUIRED_DATA_SPEC[n] \subseteq raw_data[n].columns
    /\ (LoadDataOver /\ \E n \in Range(RequiredTables) : BadRequiredTable(n)) =>
            (err # "none" /\ pc = "failed" /\ raw_data = EmptyMap)

C13_Witness ==
    /\ LoadDataReturned
    /\ err = "none"
    /\ "stop_times" \in DOMAIN raw_data
    /\ "shapes" \notin DOMAIN raw_data

\* C14: in every table validate_data returns, no row has a null in a
\* string-typed column of the schema and every schema column has its
\* declared type.
C14_ValidatedTablesAreClean ==
    pc = "validated" =>
        \A n \in DOMAIN validated_data :
            /\ \A i \in DOMAIN validated_data[n].rows :
                    \A c \in IdCols(DataSpecs[n]) : validated_data[n].rows[i][c] # Null
            /\ \A c \in DOMAIN DataSpecs[n] : validated_data[n].dtype[c] = DataSpecs[n][c]

\* the constructor of Metric_Calculation has returned or raised
MetricEnded == pc \in {"failed", "done"}

MetricTables == {"stop_metrics", "tpbp_metrics", "route_metrics"}

\* C15: the constructor runs to completion without reading an attribute that
\* was never assigned and leaves stop_metrics, tpbp_metrics and
\* route_metrics defined, with and without AVL in the data option.
C15_ConstructorCompletes ==
    /\ err # "AttributeError: gtfs_stop_metrics"
    /\ MetricEnded => (pc = "done" /\ MetricTables \subseteq DOMAIN mc)

GtfsMetricColumns ==
    {"stop_spacing", "scheduled_headway", "scheduled_running_time", "scheduled_speed"}

AvlMetricColumns ==
    {"observed_headway", "observed_running_time", "observed_speed_without_dwell",
     "observed_running_time_with_dwell", "observed_speed_with_dwell", "boardings",
     "on_time_performance", "passenger_load", "crowding", "free_flow_speed",
     "free_flow_travel_time", "observed_travel_time", "vehicle_congestion_delay",
     "passenger_congestion_delay"}

\* C18: without 'AVL' in the data option no table has a column of an AVL
\* metric, and the four GTFS metrics have been computed.
C18_GtfsMetricsWithoutAvl ==
    (MetricEnded /\ "AVL" \notin margs.data_option) =>
        /\ \A a \in MetricTables \cap DOMAIN mc : mc[a].columns \cap AvlMetricColumns = {}
        /\ HasAttr(mc, "stop_metrics")
        /\ GtfsMetricColumns \subseteq mc.stop_metrics.columns

\* no two rows of the table have the same cells in the key columns
UniqueRows(table, key) ==
    \A i, j \in DOMAIN table.rows :
        SameCells(table.rows[i], table.rows[j], key) => i = j

\* C19: after metric calculation stop_metrics has at most one row per
\* (route_id, trip_id, stop_pair) and route_metrics at most one row per
\* (route_id, trip_id).
C19_OneRowPerKey ==
    MetricEnded =>
        /\ HasAttr(mc, "stop_metrics") =>
                UniqueRows(mc.stop_metrics, {"route_id", "trip_id", "stop_pair"})
        /\ HasAttr(mc, "route_metrics") =>
                UniqueRows(mc.route_metrics, {"route_id", "trip_id"})

\* C16: on_time_performance raises whenever no_earlier_than > 0 or
\* no_later_than < 0 and then leaves every table of the object as it was;
\* with no_earlier_than <= 0 and no_later_than >= 0 it does not raise that
\* error.
C16_OtpBoundsCheckedFirst ==
    [][(pc = "call" /\ margs'.method = "on_time_performance") =>
          /\ (margs'.no_earlier_than > 0 \/ margs'.no_later_than < 0) =>
                (pc' = "raised" /\ err' = OtpError /\ mc' = mc)
          /\ (margs'.no_earlier_than <= 0 /\ margs'.no_later_than >= 0) =>
                err' # OtpError]_vars

C16_Witness ==
    /\ pc = "raised"
    /\ margs = [method |-> "on_time_performance",
                no_earlier_than |-> 2, no_later_than |-> 5]
    /\ err = OtpError
    /\ {"avl_records", "stop_metrics", "route_metrics"} \subseteq DOMAIN mc

RunningTimeColumns == {"observed_running_time", "observed_running_time_with_dwell"}

\* C17: every observed_running_time and observed_running_time_with_dwell
\* value is >= 0: per service date (avl_records), averaged over the service
\* dates (stop_metrics) and summed per trip (route_metrics).
C17_RunningTimesNotNegative ==
    \A a \in {"avl_records", "stop_metrics", "route_metrics"} \cap DOMAIN mc :
        \A c \in RunningTimeColumns \cap mc[a].columns :
            \A i \in DOMAIN mc[a].rows :
                mc[a].rows[i][c] # NA => mc[a].rows[i][c] >= 0

\* a call has returned for records in which the dwell time exceeds the time
\* to the next stop, or the next arrival precedes the stop time
C17_Witness ==
    /\ pc = "returned"
    /\ margs.method \in RunningTimeColumns
    /\ \E i \in DOMAIN mc.avl_records.rows :
            LET r == mc.avl_records.rows[i]
            IN  /\ r.next_stop_arrival_time < r.stop_time
                /\ r[margs.method] = 0
    /\ \E i \in DOMAIN mc.stop_metrics.rows :
            mc.stop_metrics.rows[i][margs.method] \notin {NA, 0}
    /\ \E i \in DOMAIN mc.route_metrics.rows :
            mc.route_metrics.rows[i][margs.method] # NA

GoodRequiredTablesRead ==
    /\ ptg_feed.loaded
    /\ pc # "get_tables"
    /\ \A n \in Range(RequiredTables) : ~BadRequiredTable(n)

ShapesAbsentOrEmpty ==
    \/ "shapes" \notin DOMAIN ptg_feed.tables
    \/ IsEmpty(ptg_feed.tables["shapes"])

ShapesLacksColumn ==
    /\ "shapes" \in DOMAIN ptg_feed.tables
    /\ ~IsEmpty(ptg_feed.tables["shapes"])
    /\ ~(DOMAIN OPTIONAL_DATA_SPEC["shapes"] \subseteq ptg_feed.tables["shapes"].columns)

\* load_data has returned the required tables and no shapes table
ReturnedWithoutShapes == DOMAIN raw_data = Range(RequiredTables)

\* C23 (as stated): a shapes table that is absent, empty or lacking a column
\* of its schema is skipped: load_data returns the required tables.
C23_OptionalTableSkipped ==
    (GoodRequiredTablesRead /\ (ShapesAbsentOrEmpty \/ ShapesLacksColumn)) =>
        ReturnedWithoutShapes

\* C23 (amended): a shapes table that is absent or empty is skipped and
\* load_data returns the required tables; a shapes table with rows that lacks
\* a column of its schema ends load_data with a KeyError and nothing is
\* returned.
C23_OptionalTableSkippedOrKeyError ==
    /\ (GoodRequiredTablesRead /\ ShapesAbsentOrEmpty) => ReturnedWithoutShapes
    /\ (GoodRequiredTablesRead /\ ShapesLacksColumn) =>
            /\ pc = "failed"
            /\ err = "KeyError: missing required columns"
            /\ raw_data = EmptyMap

\* the feed has a shapes table without rows, and load_data has returned
C23_Witness ==
    /\ GoodRequiredTablesRead
    /\ "shapes" \in DOMAIN ptg_feed.tables
    /\ ptg_feed.tables["shapes"].rows = <<>>
    /\ ReturnedWithoutShapes
    /\ pc = "validate_data"

IntervalsBuilt == time_period_full # <<>>

BucketStart(k) == interval_to_second(all_10_min_intervals[k][1])

BucketEnd(k) == interval_to_second(all_10_min_intervals[k][2])

\* C24: the interval list tiles the 'full' window: the first bucket starts at
\* day_start, every later bucket starts where the previous one ended, every
\* bucket but the last spans 600 s, the last ends at day_end, no bucket is
\* empty or reaches past day_end, and every bound is a whole minute (the
\* conversion to (hour, minute) and back returns the same second); the list
\* is empty exactly for a window with day_end <= day_start.
C24_IntervalsTileTheWindow ==
    IntervalsBuilt =>
        LET day_start_sec == interval_to_second(time_period_full[1])
            day_end_sec == interval_to_second(time_period_full[2])
            n == Len(all_10_min_intervals)
        IN  /\ n = 0 <=> day_end_sec <= day_start_sec
            /\ n > 0 => BucketStart(1) = day_start_sec /\ BucketEnd(n) = day_end_sec
            /\ \A k \in 1..n :
                  /\ BucketStart(k) < BucketEnd(k)
                  /\ BucketEnd(k) <= day_end_sec
                  /\ k < n => BucketEnd(k) - BucketStart(k) = SECONDS_IN_TEN_MINUTES
                  /\ k > 1 => BucketStart(k) = BucketEnd(k - 1)
                  /\ all_10_min_intervals[k][1][2] \in 0..59
                  /\ all_10_min_intervals[k][2][2] \in 0..59

\* a window that is no multiple of ten minutes: the last bucket is shorter
C24_Witness ==
    /\ IntervalsBuilt
    /\ Len(all_10_min_intervals) >= 3
    /\ LET n == Len(all_10_min_intervals)
       IN  BucketEnd(n) - BucketStart(n) < SECONDS_IN_TEN_MINUTES

RunFailed == pc \in {"failed", "quit"}

\* C21: when a stage of a run has failed, no output file written by the
\* stages before the failure is left.
C21_NoFilesLeftAfterFailure ==
    (RunFailed /\ stages # <<>>) => files = {}

Entered(stage) == \E k \in DOMAIN stages : stages[k] = stage

\* C28: shape generation is entered only when pattern synthesis has run and
\* bound bus_gtfs; metric calculation is entered only when shapes,
\* gtfs_records and avl_records are bound; with an unsupported agency no
\* stage is entered.
C28_StagesFollowTheirInputs ==
    /\ Entered("shape_generation") =>
            (Entered("data_generation") /\ "bus_gtfs" \in bound)
    /\ Entered("metric_calculation") =>
            {"shapes", "gtfs_records", "avl_records"} \subseteq bound
    /\ main.AGENCY \notin SUPPORTED_AGENCIES =>
            (stages = <<>> /\ bound = {} /\ pc \in {"check_agency", "quit"})

\* the rows of the trip of row i that are tp_bp stops, up to row i and after it
TpBpUpTo(i) ==
    {j \in 1..i : records[j].trip_id = records[i].trip_id /\ tp_bp[j] = 1}

TpBpAfter(i) ==
    {j \in (i + 1)..Len(records) :
        records[j].trip_id = records[i].trip_id /\ tp_bp[j] = 1}

\* C30: for every trip and every consecutive stop pair (a, b) of it, the
\* lookup has the key route_id-a-b, and its value is (p, q), p the last tp_bp
\* stop of that trip at or before a and q the first tp_bp stop of that trip
\* after a.
C30_LookupHoldsTheTripsPair ==
    pc = "constructed" =>
        \A i \in DOMAIN records :
            NextInTrip(records, i) # 0 =>
                LET key == <<records[i].route_id, records[i].stop_id,
                             records[NextInTrip(records, i)].stop_id>>
                IN  /\ key \in DOMAIN tpbp_dict
                    /\ TpBpUpTo(i) # {} /\ TpBpAfter(i) # {}
                    /\ tpbp_dict[key] = <<records[Max(TpBpUpTo(i))].stop_id,
                                          records[Min(TpBpAfter(i))].stop_id>>

Returned(method) == pc = "returned" /\ margs.method = method

HeadwayKeys == {"route_id", "direction_id", "pattern", "stop_pair"}

\* the rows of the group of row i, and the ways to order a group by
\* arrival_time
HeadwayGroup(rows, i) == {j \in DOMAIN rows : SameCells(rows[j], rows[i], HeadwayKeys)}

OrderedByArrival(rows, group) ==
    {f \in [1..Cardinality(group) -> group] :
        /\ \A k, m \in DOMAIN f : k # m => f[k] # f[m]
        /\ \A k \in 1..(Cardinality(group) - 1) :
              rows[f[k]].arrival_time <= rows[f[k + 1]].arrival_time}

\* C25: within each (route_id, direction_id, pattern, stop_pair) group of
\* stop_metrics ordered by arrival_time, the earliest row has no
\* scheduled_headway and every other row's scheduled_headway is its
\* arrival_time minus that of the row before it, in minutes, hence >= 0.
C25_HeadwayIsDifferenceToPreceding ==
    Returned("scheduled_headway") =>
        LET rows == mc.stop_metrics.rows
        IN  \A i \in DOMAIN rows :
                \E f \in OrderedByArrival(rows, HeadwayGroup(rows, i)) :
                    /\ rows[f[1]].scheduled_headway = NA
                    /\ \A k \in 2..Len(f) :
                          /\ rows[f[k]].scheduled_headway =
                                Minutes(rows[f[k]].arrival_time
                                        - rows[f[k - 1]].arrival_time)
                          /\ rows[f[k]].scheduled_headway >= 0

\* two trips of one pattern arrive at the first stop of a pair at 0 s and at
\* 600 s, and the headway of the pair is 10.00 min
C25_Witness ==
    /\ Returned("scheduled_headway")
    /\ \E i, j \in DOMAIN mc.stop_metrics.rows :
          LET r == mc.stop_metrics.rows[i]
              q == mc.stop_metrics.rows[j]
          IN  /\ SameCells(r, q, HeadwayKeys)
              /\ r.trip_id # q.trip_id
              /\ r.arrival_time = 0 /\ q.arrival_time = 600
              /\ r.scheduled_headway = NA /\ q.scheduled_headway = 1000

\* the rows of stop_metrics of the trip of the tpbp row r from its stop up to
\* the next tp_bp stop of the trip
InSegment(rows, r, j) ==
    /\ rows[j].trip_id = r.trip_id
    /\ rows[j].stop_sequence >= r.stop_sequence
    /\ \A m \in DOMAIN rows :
          /\ rows[m].trip_id = r.trip_id
          /\ rows[m].tp_bp = 1
          /\ rows[m].stop_sequence > r.stop_sequence
          => rows[j].stop_sequence < rows[m].stop_sequence

\* the sum of the column col of stop_metrics over the segment of the tpbp row r
SegmentSum(rows, col, r) ==
    SumSkipNa([j \in DOMAIN rows |-> IF InSegment(rows, r, j) THEN rows[j][col] ELSE NA])

TpbpRowsOfTrip(t) == SelectSeq(mc.tpbp_metrics.rows, LAMBDA r : r.trip_id = t)

\* C26: the stop_spacing of every tpbp_metrics row is the sum of the
\* stop-grain stop_spacing of its trip from its first stop up to its second,
\* the tpbp values of a trip add up to the route-grain stop_spacing of the
\* trip, and the merge keeps one row per tpbp row.
C26_TpbpSpacingIsSumOfStopSpacings ==
    Returned("stop_spacing") =>
        LET rows == mc.stop_metrics.rows
            tpbp == mc.tpbp_metrics.rows
        IN  /\ \A k \in DOMAIN tpbp :
                  tpbp[k].stop_spacing = SegmentSum(rows, "stop_spacing", tpbp[k])
            /\ \A k \in DOMAIN mc.route_metrics.rows :
                  LET route == mc.route_metrics.rows[k]
                      mine == TpbpRowsOfTrip(route.trip_id)
                  IN  SumSkipNa([m \in DOMAIN mine |-> mine[m].stop_spacing])
                          = route.stop_spacing
            /\ \A k, m \in DOMAIN tpbp : tpbp[k].index = tpbp[m].index => k = m
            /\ {tpbp[k].index : k \in DOMAIN tpbp}
                  = {rows[j].index : j \in {i \in DOMAIN rows : rows[i].tp_bp = 1}}

TpbpSumColumns ==
    {"scheduled_running_time", "observed_running_time",
     "observed_running_time_with_dwell", "boardings"}

\* C27: scheduled_running_time, observed_running_time,
\* observed_running_time_with_dwell and boardings of every tpbp_metrics row
\* are the sums of the stop-grain values of its trip from its first stop up
\* to its second, also when the method has merged the AVL averages into
\* stop_metrics before it assigns the column of tpbp_metrics.
C27_TpbpColumnsAreSegmentSums ==
    \A col \in TpbpSumColumns :
        Returned(col) =>
            \A k \in DOMAIN mc.tpbp_metrics.rows :
                mc.tpbp_metrics.rows[k][col]
                    = SegmentSum(mc.stop_metrics.rows, col, mc.tpbp_metrics.rows[k])

\* C29: the constructor of Metric_Calculation and every metric operation
\* leave the gtfs_records, avl_records and shapes tables they were given as
\* they were, and validate_data leaves the raw tables as they were.
C29_PassedTablesUnchanged ==
    [][/\ pc \in {"prepare_stop_event_records", "gtfs_route_metrics"}
            => \A t \in PassedTables : margs'[t] = margs[t]
       /\ pc = "call" /\ "shapes" \in DOMAIN margs
            => \A t \in PassedTables : margs'[t] = margs[t]
       /\ pc = "validate_data" => raw_data' = raw_data]_vars

\* the constructor has prepared stop_metrics from gtfs_records, a method has
\* returned, or validate_data has returned tables
C29_Witness ==
    \/ /\ pc = "gtfs_route_metrics"
       /\ "next_stop" \in mc.stop_metrics.columns
       /\ "next_stop" \notin margs.gtfs_records.columns
    \/ /\ Returned("stop_spacing")
       /\ "stop_spacing" \in mc.tpbp_metrics.columns

====
